---- MODULE Spec2Model ----
(***************************************************************************)
(* Runtime adapters of uipath-llamaindex-python / uipath-openai-agents.     *)
(*                                                                         *)
(*   Spec        one run of UiPathOpenAIAgentRuntime (execute / stream,     *)
(*               breakpoints, resume signal) or a series of runs on one     *)
(*               UiPathLlamaIndexRuntime instance (suspend / resume).       *)
(*   FairSpecNoResume                                                       *)
(*               the runs of UiPathOpenAIAgentRuntime without a resume      *)
(*               event, with weak fairness of the adapter's and the         *)
(*               caller's steps (asyncio runs every ready coroutine).       *)
(*   SpecFactory concurrent new_runtime / discover_runtimes / dispose on    *)
(*               one UiPathOpenAIAgentRuntimeFactory.                       *)
(***************************************************************************)
EXTENDS Naturals, Integers, Sequences, FiniteSets, TLC

VARIABLES
    adapter,      \* "openai" | "llamaindex": which runtime class is running
    op,           \* "execute" | "stream": the entry point that was called
    pc,           \* position of the _run_agent / _run_workflow generator
    consumer,     \* "awaiting" (in __anext__) | "holding" (has an item) | "finished"
    seen,         \* events delivered so far by the framework's event stream
    out,          \* items yielded so far by the generator
    returned,     \* execute(): the result it returned, NoItem before
    escaped,      \* the exception that left execute()/stream(), NoExc if none
    breakpoints,  \* options.breakpoints
    hasResume,    \* options.resume_event is not None
    resumeSet,    \* asyncio.Event flag of options.resume_event
    policy,       \* what the caller does on a breakpoint result
    pendingSet,   \* a task created by the caller that will set resume_event
    signalled,    \* index of the last event the caller signalled resume for
    isResuming,   \* options.resume
    hasStorage,   \* storage_path (openai) / storage (llamaindex) is configured
    sessionFile,  \* openai: a file exists at storage_path
    raisedCls,    \* openai: class of the exception the agent run raised
    cleanup,      \* openai: what the except block of _run_agent did
    ctx,          \* llamaindex: self._context (NoCtx when None)
    stored,       \* llamaindex: storage's "workflow_context" (NoCtx when absent)
    runArgs,      \* llamaindex: what the current run passed to workflow.run
    isResumed,    \* llamaindex: local flag is_resumed of _run_workflow
    log,          \* llamaindex: side effects of the current run, in order
    runs,         \* llamaindex: number of runs started on this instance
    nextId,       \* llamaindex: identity of the next Context object created
    \* UiPathOpenAIAgentRuntimeFactory
    cfgExists,    \* config.exists: openai_agents.json was found
    ctxResume,    \* context.resume
    ctxJobId,     \* context.job_id is not None
    stateFile,    \* a file exists at runtime_dir/state_file
    removed,      \* os.remove was called on the state file of an earlier run
    agentCache,   \* _agent_cache: entrypoint -> agent object (0: no entry)
    agentLoaders, \* keys of _agent_loaders
    agentLock,    \* task holding _agent_lock (0: unlocked)
    sharedStorage, \* _storage: the shared storage object (0: None)
    storageLock,  \* task holding _storage_lock (0: unlocked)
    fpc,          \* per task: position in its factory call
    todo,         \* per task: entrypoints its call still has to resolve
    got,          \* per task: agent its last _resolve_agent returned
    made,         \* per task: agent and storage of the last runtime it created
    failure,      \* per task: the exception its call ended with
    nextObj,      \* identity of the next agent or storage object created
    \* PickleResumableStorage and SqliteAgentStorage
    pickleFile,   \* the dict pickled at storage_path (NoFile: no file)
    triggerRows,  \* sqlite: runtime id -> the trigger rows saved for it
    stateRows,    \* sqlite: runtime id -> the state row saved for it
    stLog,        \* the save operations performed so far, in order
    stGot,        \* what the last read operation returned, and for which id
    \* functions called on their own
    call,         \* the function called and its argument (NoCall: none)
    result,       \* what the call returned or raised (Pending: not yet)
    \* the storage file the runtimes of one factory share
    sessionRows,  \* per runtime id, the number of session items in the file
    failedRun     \* the run that failed last, and how many runs have failed

vars == << adapter, op, pc, consumer, seen, out, returned, escaped, breakpoints,
           hasResume, resumeSet, policy, pendingSet, signalled, isResuming,
           hasStorage, sessionFile, raisedCls, cleanup, ctx, stored, runArgs,
             isResumed, log, runs,
           nextId, cfgExists, ctxResume, ctxJobId, stateFile, removed, agentCache,
           agentLoaders, agentLock, sharedStorage, storageLock, fpc, todo, got, made,
           failure, nextObj, pickleFile, triggerRows, stateRows, stLog, stGot,
           call, result, sessionRows, failedRun >>

\* the state of a runtime, and the state of a factory and its callers
rtVars == << adapter, op, pc, consumer, seen, out, returned, escaped, breakpoints,
             hasResume, resumeSet, policy, pendingSet, signalled, isResuming,
             hasStorage, sessionFile, raisedCls, cleanup, ctx, stored, runArgs,
             isResumed, log, runs,
             nextId >>

facVars == << cfgExists, ctxResume, ctxJobId, stateFile, removed, agentCache,
              agentLoaders,
              agentLock, sharedStorage, storageLock, fpc, todo, got, made, failure,
              nextObj >>

\* the state of the storages
stVars == << pickleFile, triggerRows, stateRows, stLog, stGot >>

\* the state of the components that take no part in a runtime or factory run
\* a function call and its outcome
fnVars == << call, result >>

\* the session data of the shared storage file
shVars == << sessionRows, failedRun >>

libVars == << stVars, fnVars, shVars >>

oaVars == << breakpoints, hasResume, resumeSet, policy, pendingSet, signalled,
             sessionFile, raisedCls, cleanup >>

liVars == << ctx, stored, runArgs, isResumed, log, runs >>

(***************************************************************************)
(* Bounds                                                                  *)
(***************************************************************************)
MaxStream == 2      \* longest event stream a framework run delivers
MaxRuns == 2        \* runs on one UiPathLlamaIndexRuntime instance
NumTasks == 2       \* concurrent calls on one factory

(***************************************************************************)
(* Values                                                                  *)
(***************************************************************************)
None == "None"
RunItem == "run_item_stream_event"
RawResponse == "raw_response_event"
AgentUpdated == "agent_updated_stream_event"

\* names usable in options.breakpoints: a tool name and an agent name
ToolA == "calculate_sum"
NameB == "french_agent"

\* a streaming event of Runner.run_streamed(): type, name, item.name,
\* item.target_agent.name (None where the attribute is missing)
Ev(t, n, tool, target) == [type |-> t, name |-> n, tool |-> tool, target |-> target]

OAEvents ==
    { Ev(RunItem, "tool_called", ToolA, None),
      Ev(RunItem, "tool_called", NameB, None),
      Ev(RunItem, "handoff_requested", None, NameB),
      Ev(RunItem, "mcp_approval_requested", None, None),
      Ev(RunItem, "message_output_created", None, None),
      Ev(RawResponse, None, None, None),
      Ev(AgentUpdated, None, None, None) }

\* options.breakpoints: None, "*" or a list of names
Bp(k, names) == [kind |-> k, names |-> names]
NoBreakpoints == Bp("none", << >>)
AllBreakpoints == Bp("star", << >>)
BreakpointConfigs ==
    { NoBreakpoints, AllBreakpoints, Bp("list", << >>), Bp("list", << ToolA >>),
      Bp("list", << NameB >>), Bp("list", << ToolA, NameB >>) }

\* items the generators yield
Item(k, i, info) == [kind |-> k, idx |-> i, info |-> info]
NoItem == Item("none", 0, None)

\* exceptions: class, identity, and for the repository's own runtime errors the
\* code, title, category and the class of the exception they were raised from
\* (whose text the detail embeds)
Exc(c, code, title, cat, id, cause) ==
    [cls |-> c, code |-> code, title |-> title, category |-> cat, id |-> id,
     cause |-> cause]
NoExc == Exc(None, None, None, None, 0, None)
\* identities of the exception a run raises and of the one a boundary creates
RaisedId == 1
WrapperId == 2
\* an exception object as the framework or the user's code raises it
Raised(c, id) ==
    IF c \in {"UiPathOpenAIAgentsRuntimeError", "UiPathLlamaIndexRuntimeError"}
    THEN Exc(c, "CUSTOM_CODE", "Custom title", "SYSTEM", id, None)
    ELSE Exc(c, None, None, None, id, None)

OAError == "UiPathOpenAIAgentsRuntimeError"
LIError == "UiPathLlamaIndexRuntimeError"

\* classes derived from Exception, and those derived from BaseException only
ExceptionClasses ==
    { "Exception", "RuntimeError", "ValueError", "JSONDecodeError", "TimeoutError",
      "OSError", "PermissionDeniedError",
      "WorkflowTimeoutError", "ImportError", "ModuleNotFoundError", "TypeError",
      OAError, LIError }
BaseOnlyClasses == { "CancelledError" }

IsException(e) == e.cls \in ExceptionClasses

\* isinstance: the class itself or its built-in base class
Parent(c) ==
    IF c = "ModuleNotFoundError" THEN "ImportError"
    ELSE IF c = "JSONDecodeError" THEN "ValueError"
    ELSE IF c \in ExceptionClasses THEN "Exception"
    ELSE "BaseException"
IsInstance(c, base) == c = base \/ Parent(c) = base

(***************************************************************************)
(* UiPathOpenAIAgentRuntime: pure helpers                                  *)
(***************************************************************************)
\* the loop `for bp in breakpoints` of _should_pause_at_event, from index i
RECURSIVE MatchFrom(_, _, _)
MatchFrom(event, names, i) ==
    IF i > Len(names) THEN FALSE
    ELSE IF /\ event.name = "tool_called"
            /\ event.type = RunItem
            /\ event.tool # None
            /\ event.tool = names[i]
         THEN TRUE
    ELSE IF /\ event.name = "handoff_requested"
            /\ event.type = RunItem
            /\ event.target # None
            /\ event.target = names[i]
         THEN TRUE
    ELSE MatchFrom(event, names, i + 1)

\* mutant: a list of names pauses on every tool call and handoff
ShouldPauseAtEvent_AnyName(event, bps) ==
    IF bps.kind = "none" \/ (bps.kind = "list" /\ Len(bps.names) = 0)
    THEN FALSE
    ELSE IF bps.kind = "star"
    THEN IF event.type = RunItem
         THEN event.name \in {"tool_called", "handoff_requested",
                              "mcp_approval_requested"}
         ELSE FALSE
    ELSE event.type = RunItem /\ event.name \in {"tool_called", "handoff_requested"}

\* mutant: "*" pauses on every run-item event
ShouldPauseAtEvent_StarAnyItem(event, bps) ==
    IF bps.kind = "none" \/ (bps.kind = "list" /\ Len(bps.names) = 0)
    THEN FALSE
    ELSE IF bps.kind = "star"
    THEN event.type = RunItem
    ELSE MatchFrom(event, bps.names, 1)

ShouldPauseAtEvent(event, bps) ==
    IF bps.kind = "none" \/ (bps.kind = "list" /\ Len(bps.names) = 0)
    THEN FALSE                                   \* `if not breakpoints`
    ELSE IF bps.kind = "star"
    THEN IF event.type = RunItem
         THEN event.name \in {"tool_called", "handoff_requested",
                              "mcp_approval_requested"}
         ELSE FALSE
    ELSE MatchFrom(event, bps.names, 1)

\* kind of runtime event an agent event converts to, None when filtered out
ConvertStreamEventToRuntimeEvent(event) ==
    IF event.type = RunItem
    THEN IF event.name \in {"message_output_created", "reasoning_item_created"}
         THEN "message"
         ELSE "state"
    ELSE IF event.type = AgentUpdated THEN "state"
    ELSE None

CreateBreakpointResultFromEvent(event, i) == Item("breakpoint", i, event.name)

OA_CreateSuccessResult == Item("result", 0, "SUCCESSFUL")

\* Python values of the input dictionary: type and text (repr; for a string
\* the string itself)
PyVal(t, v) == [t |-> t, v |-> v]
Absent == PyVal("absent", "")
InputValues ==
    { PyVal("list", "[]"), PyVal("list", "[{role: user, content: hi}]"),
      PyVal("str", "hello"), PyVal("str", "123"), PyVal("int", "123"),
      PyVal("NoneType", "None"), PyVal("dict", "{role: user}") }

\* the input: None, or a dictionary with or without the keys 'messages' and
\* 'message' and with or without another key
AgentInput(none, messages, message, other) ==
    [none |-> none, messages |-> messages, message |-> message, other |-> other]
InputNone == AgentInput(TRUE, Absent, Absent, FALSE)
AgentInputs ==
    { InputNone } \cup
    { AgentInput(FALSE, ms, m, o) :
        ms \in InputValues \cup {Absent}, m \in InputValues \cup {Absent},
        o \in BOOLEAN }

\* `not input`: None or a dictionary without keys
Falsy(input) ==
    \/ input.none
    \/ (input.messages = Absent /\ input.message = Absent /\ ~input.other)

\* str(message)
Str(x) == PyVal("str", x.v)

Returned(x) == [kind |-> "return", value |-> x]
ValueError(text) == [kind |-> "raise", value |-> PyVal("ValueError", text)]

\* mutant: the 'message' key is looked at before the 'messages' key
PrepareAgentInputDict_MessageFirst(input) ==
    IF Falsy(input) THEN ValueError("Input is required")
    ELSE IF input.message # Absent THEN Returned(Str(input.message))
    ELSE IF input.messages # Absent
    THEN IF input.messages.t = "list"
         THEN Returned(input.messages)
         ELSE ValueError("'messages' field must be a list")
    ELSE ValueError("Input must contain either 'message' or 'messages'")

\* _prepare_agent_input
PrepareAgentInputDict(input) ==
    IF Falsy(input) THEN ValueError("Input is required")
    ELSE IF input.messages # Absent
    THEN IF input.messages.t = "list"
         THEN Returned(input.messages)
         ELSE ValueError("'messages' field must be a list")
    ELSE IF input.message # Absent THEN Returned(Str(input.message))
    ELSE ValueError("Input must contain either 'message' or 'messages'")

\* shapes of the input dictionary a run is started with
InputShapes == {"none", "empty", "message", "messages_list", "messages_other",
                "both_list", "other_keys"}

ShapeInput(shape) ==
    IF shape = "none" THEN InputNone
    ELSE IF shape = "empty" THEN AgentInput(FALSE, Absent, Absent, FALSE)
    ELSE IF shape = "message"
    THEN AgentInput(FALSE, Absent, PyVal("str", "hello"), FALSE)
    ELSE IF shape = "messages_list"
    THEN AgentInput(FALSE, PyVal("list", "[]"), Absent, FALSE)
    ELSE IF shape = "messages_other"
    THEN AgentInput(FALSE, PyVal("str", "hello"), Absent, FALSE)
    ELSE IF shape = "both_list"
    THEN AgentInput(FALSE, PyVal("list", "[]"), PyVal("str", "hello"), FALSE)
    ELSE AgentInput(FALSE, Absent, Absent, TRUE)

\* what _prepare_agent_input does with a shape: the type returned, or ValueError
PrepareAgentInput(input) ==
    IF PrepareAgentInputDict(ShapeInput(input)).kind = "raise"
    THEN "ValueError"
    ELSE PrepareAgentInputDict(ShapeInput(input)).value.t

\* mutant: the isinstance check for the own error type is missing
OA_CreateRuntimeError_AlwaysWrap(e, id) ==
    IF e.cls = "JSONDecodeError"
    THEN Exc(OAError, "INPUT_INVALID_JSON", "Invalid JSON input", "USER", id, e.cls)
    ELSE IF e.cls = "TimeoutError"
    THEN Exc(OAError, "TIMEOUT_ERROR", "Agent execution timed out", "USER", id, e.cls)
    ELSE Exc(OAError, "AGENT_EXECUTION_FAILURE", "Agent execution failed", "USER",
             id, e.cls)

OA_CreateRuntimeError(e, id) ==
    IF e.cls = OAError THEN e
    ELSE IF e.cls = "JSONDecodeError"
    THEN Exc(OAError, "INPUT_INVALID_JSON", "Invalid JSON input", "USER", id, e.cls)
    ELSE IF e.cls = "TimeoutError"
    THEN Exc(OAError, "TIMEOUT_ERROR", "Agent execution timed out", "USER", id, e.cls)
    ELSE Exc(OAError, "AGENT_EXECUTION_FAILURE", "Agent execution failed", "USER",
             id, e.cls)

\* `except Exception as e: raise self._create_runtime_error(e) from e` of
\* execute() and stream(): BaseException-only classes are not caught
OA_Boundary(e, id) == IF IsException(e) THEN OA_CreateRuntimeError(e, id) ELSE e

\* the `except Exception:` block of _run_agent: what it does about the
\* incomplete session ("none": the block is not entered); os.remove may raise
OA_CleanupAttempt(e, file, storage, resuming, rmFails) ==
    IF ~IsException(e) THEN "none"
    ELSE IF ~(storage /\ ~resuming) THEN "skipped"
    ELSE IF ~file THEN "absent"
    ELSE IF rmFails THEN "failed"
    ELSE "removed"

\* whether the session file exists after the block
OA_CleanupOnError(e, file, storage, resuming, rmFails) ==
    IF OA_CleanupAttempt(e, file, storage, resuming, rmFails) = "removed"
    THEN FALSE ELSE file

\* mutant: an exception of the deletion replaces the failure of the run
OA_RunAgentError_Masked(e, file, storage, resuming, rmFails) ==
    IF OA_CleanupAttempt(e, file, storage, resuming, rmFails) = "failed"
    THEN Raised("OSError", e.id)
    ELSE e

\* the exception that leaves _run_agent: `except Exception: pass` around the
\* deletion, then `raise` of the failure of the run
OA_RunAgentError(e, file, storage, resuming, rmFails) == e

HasBreakpoints(bps) == ~(bps.kind = "none" \/ (bps.kind = "list" /\ Len(bps.names) = 0))

(***************************************************************************)
(* UiPathLlamaIndexRuntime: pure helpers                                   *)
(***************************************************************************)
\* events of handler.stream_events(): one that stream() wraps as a message
\* event, one other workflow event, and the input-required event
LIEvents == {"ToolCall", "StepEvent", "InputRequiredEvent"}
LIMessageEvents == {"AgentOutput", "AgentInput", "AgentStream", "ToolCall",
                    "ToolCallResult"}

\* a workflow Context: object identity, how it came to be, and the number of
\* workflow events produced on it so far (its in-flight execution state)
Ctx(id, origin, progress) == [id |-> id, origin |-> origin, progress |-> progress]
NoCtx == Ctx(0, None, 0)
NewContext(id) == Ctx(id, "new", 0)                      \* Context(self.workflow)
ToDict(c) == Ctx(c.id, "dict", c.progress)               \* Context.to_dict
FromDict(d, id) == Ctx(id, "storage", d.progress)        \* Context.from_dict

\* mutant: the saved context is ignored and a new one is created
LoadContext_Fresh(storage, saved, id) == NewContext(id)

LoadContext(storage, saved, id) ==
    IF ~storage THEN NewContext(id)
    ELSE IF saved # NoCtx THEN FromDict(saved, id)
    ELSE NewContext(id)

\* storage content after _save_context
SaveContext(storage, c, saved) ==
    IF ~storage \/ c = NoCtx THEN saved ELSE ToDict(c)

Args(c, start, sent) == [ctx |-> c, startEvent |-> start, sent |-> sent]
NoArgs == Args(NoCtx, None, None)

LI_CreateSuspendedResult == Item("result", 0, "SUSPENDED")
LI_CreateSuccessResult == Item("result", 0, "SUCCESSFUL")

LI_CreateRuntimeError(e, id) ==
    IF e.cls = LIError THEN e
    ELSE IF e.cls = "WorkflowTimeoutError"
    THEN Exc(LIError, "TIMEOUT_ERROR", "Workflow timed out", "USER", id, e.cls)
    ELSE IF e.cls = "JSONDecodeError"
    THEN Exc(LIError, "INPUT_INVALID_JSON", "Invalid JSON input", "USER", id, e.cls)
    ELSE Exc(LIError, "EXECUTION_ERROR", "Workflow execution failed", "USER", id,
             e.cls)

LI_Boundary(e, id) == IF IsException(e) THEN LI_CreateRuntimeError(e, id) ELSE e

(***************************************************************************)
(* Initial state: a constructed runtime on which nothing has run yet        *)
(***************************************************************************)
RuntimeInit(a, st) ==
    /\ adapter = a
    /\ hasStorage = st
    /\ op = "stream"
    /\ pc = "idle"
    /\ consumer = "finished"
    /\ seen = << >>
    /\ out = << >>
    /\ returned = NoItem
    /\ escaped = NoExc
    /\ breakpoints = NoBreakpoints
    /\ hasResume = FALSE
    /\ resumeSet = FALSE
    /\ policy = "none"
    /\ pendingSet = FALSE
    /\ signalled = 0
    /\ isResuming = FALSE
    /\ sessionFile = (a = "openai" /\ st)
    /\ raisedCls = None
    /\ cleanup = "none"
    /\ ctx = NoCtx
    /\ stored = NoCtx
    /\ runArgs = NoArgs
    /\ isResumed = FALSE
    /\ log = << >>
    /\ runs = 0
    /\ nextId = 1

Tasks == 1..NumTasks

\* config.entrypoint, the names openai_agents.json declares, and a name it
\* does not declare
Entrypoints == << "main", "helper" >>
Names == {"main", "helper", "missing"}

Runtime(a, s) == [agent |-> a, storage |-> s]
NoRuntime == Runtime(0, 0)

\* a constructed factory: empty cache, no storage, no call in progress
FactoryInit(cfg, res, job, file) ==
    /\ cfgExists = cfg
    /\ ctxResume = res
    /\ ctxJobId = job
    /\ stateFile = file
    /\ removed = FALSE
    /\ agentCache = [e \in Names |-> 0]
    /\ agentLoaders = {}
    /\ agentLock = 0
    /\ sharedStorage = 0
    /\ storageLock = 0
    /\ fpc = [p \in Tasks |-> "idle"]
    /\ todo = [p \in Tasks |-> << >>]
    /\ got = [p \in Tasks |-> 0]
    /\ made = [p \in Tasks |-> NoRuntime]
    /\ failure = [p \in Tasks |-> NoExc]
    /\ nextObj = 1

(***************************************************************************)
(* Storages: values and initial state                                      *)
(***************************************************************************)
MaxTriggers == 2    \* longest list passed to save_triggers
MaxSaves == 2       \* save operations performed on the storages
\* longest list of handoffs of an agent
MaxHandoffs == 3
\* nesting of calls of _resolve_refs beyond which a call counts as not
\* returning (the interpreter raises RecursionError at its own, higher limit)
MaxDepth == 24
\* most items a session holds, and most failed runs followed
MaxItems == 2
MaxFailures == 2

\* a resume trigger: trigger_type (the trigger name goes with it), item_key,
\* api_resume.inbox_id (None without api_resume), the kind of payload and
\* interrupt_id
Trigger(type, key, inbox, payload, interrupt) ==
    [trigger_type |-> type, item_key |-> key, inbox_id |-> inbox,
     payload |-> payload, interrupt_id |-> interrupt]
NoTrigger == Trigger(None, None, None, None, None)

TriggerFirst == Trigger("QUEUE_ITEM", "first", None, None, "interrupt-1")
TriggerSecond == Trigger("QUEUE_ITEM", "second", None, "dict", "interrupt-2")
TriggerApi == Trigger("API", "queue-123", "inbox-789", "str", "interrupt-3")
Triggers == { TriggerFirst, TriggerSecond, TriggerApi }

RECURSIVE SeqsUpTo(_, _)
SeqsUpTo(S, n) ==
    IF n = 0 THEN { << >> }
    ELSE SeqsUpTo(S, n - 1) \cup
         { Append(q, x) : q \in { r \in SeqsUpTo(S, n - 1) : Len(r) = n - 1 }, x \in S }

\* the non-empty trigger lists given to save_triggers
TriggerLists == SeqsUpTo({ TriggerFirst, TriggerSecond }, MaxTriggers) \ { << >> }

RuntimeIds == {"runtime-1", "runtime-3"}

\* agent states given to save_state: dicts, the empty dict among them
States == {"{}", "{step: 1}", "{step: 2, new_field: value}"}

\* an optional value: Python's None, or a value
Nothing == << >>
Some(x) == << x >>

\* the content of the pickle file: the dict with its two optional keys
PickleData(trigger, context) == [resume_trigger |-> trigger, workflow_context |-> context]
NoFile == Nothing
EmptyData == PickleData(Nothing, Nothing)                 \* {}

\* workflow context dictionaries given to save_context
ContextDicts == {"context-1", "context-2"}

\* results of the read operations
Got(o, id, v) == [op |-> o, id |-> id, value |-> v]
NoGot == Got(None, None, Nothing)

StorageInit ==
    /\ pickleFile = NoFile
    /\ triggerRows = [r \in RuntimeIds |-> << >>]
    /\ stateRows = [r \in RuntimeIds |-> Nothing]
    /\ stLog = << >>
    /\ stGot = NoGot

\* a call of function f with argument a; its outcome is an optional value
Call(f, a) == [fn |-> f, arg |-> a]
NoCall == Call(None, None)
Pending == Nothing

FnIdle ==
    /\ call = NoCall
    /\ result = Pending

\* nothing has been called on the components outside a run
\* a failed run: runtime id, options.resume, what the cleanup did, and the
\* number of failed runs so far
FailedRun(id, resuming, attempt, n) ==
    [id |-> id, resuming |-> resuming, attempt |-> attempt, n |-> n]
NoFailedRun == FailedRun(None, FALSE, "none", 0)

SharedIdle ==
    /\ sessionRows = [r \in RuntimeIds |-> 0]
    /\ failedRun = NoFailedRun

LibInit == StorageInit /\ FnIdle /\ SharedIdle

Init ==
    /\ \E a \in {"openai", "llamaindex"}, st \in BOOLEAN : RuntimeInit(a, st)
    /\ FactoryInit(TRUE, FALSE, FALSE, FALSE)
    /\ LibInit

Cur == seen[Len(seen)]
Last == out[Len(out)]

\* the generator yields item x to whoever iterates it
Yield(x) == /\ out' = Append(out, x)
            /\ consumer' = "holding"

\* an exception e leaves the generator and the entry point
Fail(e) == /\ escaped' = e
           /\ pc' = "failed"
           /\ consumer' = "finished"

(***************************************************************************)
(* The iterating side                                                      *)
(***************************************************************************)
\* mutant: execute() keeps the first runtime result it is given
Execute_Iterate_KeepFirst ==
    /\ UNCHANGED << facVars, libVars >>
    /\ op = "execute"
    /\ consumer = "holding"
    /\ returned' = IF Last.kind \in {"result", "breakpoint"} /\ returned = NoItem
                   THEN Last ELSE returned
    /\ consumer' = "awaiting"
    /\ UNCHANGED << adapter, pc, seen, out, escaped, isResuming, hasStorage, op,
                    nextId >>
    /\ UNCHANGED oaVars
    /\ UNCHANGED liVars

\* execute(): `async for event in ...: if isinstance(event, UiPathRuntimeResult)`
\* (a breakpoint result is a runtime result too) and asks for the next item
Execute_Iterate ==
    /\ UNCHANGED << facVars, libVars >>
    /\ op = "execute"
    /\ consumer = "holding"
    /\ returned' = IF Last.kind \in {"result", "breakpoint"} THEN Last ELSE returned
    /\ consumer' = "awaiting"
    /\ UNCHANGED << adapter, pc, seen, out, escaped, isResuming, hasStorage, op,
                    nextId >>
    /\ UNCHANGED oaVars
    /\ UNCHANGED liVars

\* the caller of stream() handles the item it got and asks for the next one.
\* On a breakpoint result with a resume event it follows its policy:
\*   "sync"  sets the event before asking on (debug_runner, test_specific_tools)
\*   "task"  clears it and creates a task that sets it later (test_breakpoints)
\*   "none"  leaves the event alone
Caller_Next ==
    /\ UNCHANGED << facVars, libVars >>
    /\ op = "stream"
    /\ consumer = "holding"
    /\ consumer' = "awaiting"
    /\ IF Last.kind = "breakpoint" /\ hasResume /\ policy = "sync"
       THEN /\ resumeSet' = TRUE
            /\ signalled' = Last.idx
            /\ UNCHANGED pendingSet
       ELSE IF Last.kind = "breakpoint" /\ hasResume /\ policy = "task"
       THEN /\ resumeSet' = FALSE
            /\ pendingSet' = TRUE
            /\ UNCHANGED signalled
       ELSE UNCHANGED << resumeSet, pendingSet, signalled >>
    /\ UNCHANGED << adapter, pc, seen, out, returned, escaped, isResuming,
                    hasStorage, op, nextId, breakpoints, hasResume, policy,
                    sessionFile, raisedCls, cleanup >>
    /\ UNCHANGED liVars

\* the task created under policy "task" runs: resume_event.set()
Task_Set ==
    /\ UNCHANGED << facVars, libVars >>
    /\ pendingSet
    /\ pendingSet' = FALSE
    /\ resumeSet' = TRUE
    /\ UNCHANGED << adapter, pc, consumer, seen, out, returned, escaped, isResuming,
                    hasStorage, op, nextId, breakpoints, hasResume, policy,
                    signalled, sessionFile, raisedCls, cleanup >>
    /\ UNCHANGED liVars

\* the generator returned after its last yield: the iteration ends
Finish ==
    /\ UNCHANGED << facVars, libVars >>
    /\ pc = "res"
    /\ consumer = "awaiting"
    /\ pc' = "done"
    /\ consumer' = "finished"
    /\ UNCHANGED << adapter, seen, out, returned, escaped, isResuming, hasStorage,
                    op, nextId >>
    /\ UNCHANGED oaVars
    /\ UNCHANGED liVars

(***************************************************************************)
(* UiPathOpenAIAgentRuntime._run_agent / _run_agent_streamed                *)
(***************************************************************************)
OARaisable == {"Exception", "ValueError", "JSONDecodeError", "TimeoutError",
               OAError, "CancelledError"}

\* execute()/stream() is called: _prepare_agent_input, options, session
OA_Start ==
    /\ UNCHANGED << facVars, libVars >>
    /\ adapter = "openai"
    /\ pc = "idle"
    /\ runs = 0
    /\ runs' = 1
    /\ \E o \in {"execute", "stream"}, bps \in BreakpointConfigs,
          res \in BOOLEAN, resuming \in BOOLEAN, input \in InputShapes :
         \E pol \in IF res /\ o = "stream" THEN {"sync", "task", "none"}
                    ELSE {"none"} :
            /\ op' = o
            /\ breakpoints' = bps
            /\ hasResume' = res
            /\ policy' = pol
            /\ isResuming' = resuming
            /\ IF PrepareAgentInput(input) = "ValueError"
               THEN /\ Fail(OA_Boundary(Raised("ValueError", RaisedId), WrapperId))
                    /\ UNCHANGED sessionFile
               ELSE /\ sessionFile' = (hasStorage \/ sessionFile)
                    /\ pc' = IF o = "stream" \/ HasBreakpoints(bps)
                             THEN "loop" ELSE "run"
                    /\ consumer' = "awaiting"
                    /\ UNCHANGED escaped
    /\ UNCHANGED << adapter, seen, out, returned, hasStorage, nextId, resumeSet,
                    pendingSet, signalled, raisedCls, cleanup >>
    /\ UNCHANGED << ctx, stored, runArgs, isResumed, log >>

\* `async for event in result.stream_events()` delivers the next event
OA_Pull ==
    /\ UNCHANGED << facVars, libVars >>
    /\ adapter = "openai"
    /\ pc = "loop"
    /\ consumer = "awaiting"
    /\ Len(seen) < MaxStream
    /\ \E e \in OAEvents : seen' = Append(seen, e)
    /\ pc' = "check"
    /\ UNCHANGED << adapter, op, consumer, out, returned, escaped, isResuming,
                    hasStorage, nextId >>
    /\ UNCHANGED oaVars
    /\ UNCHANGED liVars

\* the agent's event stream is exhausted
OA_StreamEnds ==
    /\ UNCHANGED << facVars, libVars >>
    /\ adapter = "openai"
    /\ pc = "loop"
    /\ consumer = "awaiting"
    /\ pc' = "final"
    /\ UNCHANGED << adapter, op, consumer, seen, out, returned, escaped,
                    isResuming, hasStorage, nextId >>
    /\ UNCHANGED oaVars
    /\ UNCHANGED liVars

\* the agent run raises while the adapter awaits it (streamed or not): the
\* except block of _run_agent, then the one of execute()/stream()
OA_Raises ==
    /\ UNCHANGED << facVars, libVars >>
    /\ adapter = "openai"
    /\ pc \in {"loop", "run"}
    /\ consumer = "awaiting"
    /\ \E c \in OARaisable, rmFails \in BOOLEAN :
         /\ raisedCls' = c
         /\ cleanup' = OA_CleanupAttempt(Raised(c, RaisedId), sessionFile,
                                         hasStorage, isResuming, rmFails)
         /\ sessionFile' = OA_CleanupOnError(Raised(c, RaisedId), sessionFile,
                                             hasStorage, isResuming, rmFails)
         /\ Fail(OA_Boundary(OA_RunAgentError(Raised(c, RaisedId), sessionFile,
                                              hasStorage, isResuming, rmFails),
                             WrapperId))
    /\ UNCHANGED << adapter, op, seen, out, returned, isResuming, hasStorage,
                    nextId, breakpoints, hasResume, resumeSet, policy, pendingSet,
                    signalled >>
    /\ UNCHANGED liVars

\* _should_pause_at_event, and the yield of the breakpoint result
OA_Check ==
    /\ UNCHANGED << facVars, libVars >>
    /\ adapter = "openai"
    /\ pc = "check"
    /\ IF ShouldPauseAtEvent(Cur, breakpoints)
       THEN /\ Yield(CreateBreakpointResultFromEvent(Cur, Len(seen)))
            /\ pc' = "bp"
       ELSE /\ pc' = "emit"
            /\ UNCHANGED << out, consumer >>
    /\ UNCHANGED << adapter, op, seen, returned, escaped, isResuming, hasStorage,
                    nextId >>
    /\ UNCHANGED oaVars
    /\ UNCHANGED liVars

\* mutant: the adapter goes on without clearing or awaiting the resume event
OA_AfterBreakpoint_NoWait ==
    /\ UNCHANGED << facVars, libVars >>
    /\ adapter = "openai"
    /\ pc = "bp"
    /\ consumer = "awaiting"
    /\ pc' = "emit"
    /\ UNCHANGED << adapter, op, consumer, seen, out, returned, escaped,
                    isResuming, hasStorage, nextId >>
    /\ UNCHANGED oaVars
    /\ UNCHANGED liVars

\* mutant: the adapter awaits a resume event even when none was supplied
OA_AfterBreakpoint_AlwaysWait ==
    /\ UNCHANGED << facVars, libVars >>
    /\ adapter = "openai"
    /\ pc = "bp"
    /\ consumer = "awaiting"
    /\ resumeSet' = FALSE
    /\ pc' = "wait"
    /\ UNCHANGED << adapter, op, consumer, seen, out, returned, escaped,
                    isResuming, hasStorage, nextId, breakpoints, hasResume, policy,
                    pendingSet, signalled, sessionFile, raisedCls, cleanup >>
    /\ UNCHANGED liVars

\* the generator is resumed after the breakpoint result:
\* resume_event.clear() and `await resume_event.wait()`, or neither
OA_AfterBreakpoint ==
    /\ UNCHANGED << facVars, libVars >>
    /\ adapter = "openai"
    /\ pc = "bp"
    /\ consumer = "awaiting"
    /\ IF hasResume
       THEN /\ resumeSet' = FALSE
            /\ pc' = "wait"
       ELSE /\ pc' = "emit"
            /\ UNCHANGED resumeSet
    /\ UNCHANGED << adapter, op, consumer, seen, out, returned, escaped,
                    isResuming, hasStorage, nextId, breakpoints, hasResume, policy,
                    pendingSet, signalled, sessionFile, raisedCls, cleanup >>
    /\ UNCHANGED liVars

\* resume_event.wait() returns
OA_WaitReturns ==
    /\ UNCHANGED << facVars, libVars >>
    /\ adapter = "openai"
    /\ pc = "wait"
    /\ resumeSet
    /\ pc' = "emit"
    /\ UNCHANGED << adapter, op, consumer, seen, out, returned, escaped,
                    isResuming, hasStorage, nextId >>
    /\ UNCHANGED oaVars
    /\ UNCHANGED liVars

\* `if stream_events:` convert the event and yield it unless filtered out
OA_Emit ==
    /\ UNCHANGED << facVars, libVars >>
    /\ adapter = "openai"
    /\ pc = "emit"
    /\ IF op = "stream" /\ ConvertStreamEventToRuntimeEvent(Cur) # None
       THEN /\ Yield(Item(ConvertStreamEventToRuntimeEvent(Cur), Len(seen),
                          Cur.name))
            /\ pc' = "ev"
       ELSE /\ pc' = "loop"
            /\ UNCHANGED << out, consumer >>
    /\ UNCHANGED << adapter, op, seen, returned, escaped, isResuming, hasStorage,
                    nextId >>
    /\ UNCHANGED oaVars
    /\ UNCHANGED liVars

\* the generator is resumed after a runtime event: next loop iteration
OA_AfterEvent ==
    /\ UNCHANGED << facVars, libVars >>
    /\ adapter = "openai"
    /\ pc = "ev"
    /\ consumer = "awaiting"
    /\ pc' = "loop"
    /\ UNCHANGED << adapter, op, consumer, seen, out, returned, escaped,
                    isResuming, hasStorage, nextId >>
    /\ UNCHANGED oaVars
    /\ UNCHANGED liVars

\* after the loop: yield self._create_success_result(result.final_output)
OA_Final ==
    /\ UNCHANGED << facVars, libVars >>
    /\ adapter = "openai"
    /\ pc = "final"
    /\ Yield(OA_CreateSuccessResult)
    /\ pc' = "res"
    /\ UNCHANGED << adapter, op, seen, returned, escaped, isResuming, hasStorage,
                    nextId >>
    /\ UNCHANGED oaVars
    /\ UNCHANGED liVars

\* no events and no breakpoints wanted: `await Runner.run(...)` returns
OA_RunReturns ==
    /\ UNCHANGED << facVars, libVars >>
    /\ adapter = "openai"
    /\ pc = "run"
    /\ consumer = "awaiting"
    /\ Yield(OA_CreateSuccessResult)
    /\ pc' = "res"
    /\ UNCHANGED << adapter, op, seen, returned, escaped, isResuming, hasStorage,
                    nextId >>
    /\ UNCHANGED oaVars
    /\ UNCHANGED liVars

(***************************************************************************)
(* UiPathLlamaIndexRuntime._run_workflow                                    *)
(***************************************************************************)
LIRaisable == {"Exception", "JSONDecodeError", "TimeoutError",
               "WorkflowTimeoutError", LIError, "CancelledError"}

Between == {"idle", "done", "failed"}     \* no run is active on the instance

\* the context the run uses: `if not self._context:` load it or create it
LI_ContextForRun(resuming) ==
    IF ctx # NoCtx THEN ctx
    ELSE IF resuming THEN LoadContext(hasStorage, stored, nextId)
    ELSE NewContext(nextId)

\* execute()/stream() is called: context, workflow.run, send_event
LI_Start ==
    /\ UNCHANGED << facVars, libVars >>
    /\ adapter = "llamaindex"
    /\ pc \in Between
    /\ runs < MaxRuns
    /\ runs' = runs + 1
    /\ \E o \in {"execute", "stream"}, resuming \in BOOLEAN,
          inputEmpty \in BOOLEAN :
         /\ op' = o
         /\ isResuming' = resuming
         /\ ctx' = LI_ContextForRun(resuming)
         /\ runArgs' = IF resuming
                       THEN Args(LI_ContextForRun(resuming), None,
                                 "HumanResponseEvent")
                       ELSE Args(LI_ContextForRun(resuming),
                                 IF inputEmpty THEN None ELSE "StartEvent", None)
    /\ nextId' = IF ctx = NoCtx THEN nextId + 1 ELSE nextId
    /\ pc' = "loop"
    /\ consumer' = "awaiting"
    /\ seen' = << >>
    /\ out' = << >>
    /\ log' = << >>
    /\ returned' = NoItem
    /\ escaped' = NoExc
    /\ isResumed' = FALSE
    /\ UNCHANGED << adapter, hasStorage, stored >>
    /\ UNCHANGED oaVars

\* `async for event in event_stream` delivers an event the workflow produced
\* on the context; with stream_events it is yielded as a runtime event
LI_Pull ==
    /\ UNCHANGED << facVars, libVars >>
    /\ adapter = "llamaindex"
    /\ pc = "loop"
    /\ consumer = "awaiting"
    /\ Len(seen) < MaxStream
    /\ \E e \in LIEvents :
         /\ seen' = Append(seen, e)
         /\ IF op = "stream"
            THEN /\ Yield(Item(IF e \in LIMessageEvents THEN "message" ELSE "state",
                               Len(seen) + 1, e))
                 /\ pc' = "ev"
            ELSE /\ pc' = "check"
                 /\ UNCHANGED << out, consumer >>
    /\ ctx' = Ctx(ctx.id, ctx.origin, ctx.progress + 1)
    /\ log' = Append(log, "event")
    /\ UNCHANGED << adapter, op, returned, escaped, isResuming, hasStorage, nextId,
                    stored, runArgs, isResumed, runs >>
    /\ UNCHANGED oaVars

\* mutant: the first input-required event is skipped in every run
\* (`if not is_resumed:` without `and is_resuming`)
LI_Check_SkipFirst ==
    /\ UNCHANGED << facVars, libVars >>
    /\ adapter = "llamaindex"
    /\ \/ pc = "check"
       \/ pc = "ev" /\ consumer = "awaiting"
    /\ IF Cur = "InputRequiredEvent"
       THEN IF ~isResumed
            THEN /\ isResumed' = TRUE
                 /\ pc' = "loop"
            ELSE /\ pc' = "suspend"
                 /\ UNCHANGED isResumed
       ELSE /\ pc' = "loop"
            /\ UNCHANGED isResumed
    /\ UNCHANGED << adapter, op, consumer, seen, out, returned, escaped,
                    isResuming, hasStorage, nextId, ctx, stored, runArgs, log,
                    runs >>
    /\ UNCHANGED oaVars

\* mutant: a resuming run skips every input-required event
\* (`if is_resuming:` without `not is_resumed`)
LI_Check_SkipEvery ==
    /\ UNCHANGED << facVars, libVars >>
    /\ adapter = "llamaindex"
    /\ \/ pc = "check"
       \/ pc = "ev" /\ consumer = "awaiting"
    /\ IF Cur = "InputRequiredEvent"
       THEN IF isResuming
            THEN /\ isResumed' = TRUE
                 /\ pc' = "loop"
            ELSE /\ pc' = "suspend"
                 /\ UNCHANGED isResumed
       ELSE /\ pc' = "loop"
            /\ UNCHANGED isResumed
    /\ UNCHANGED << adapter, op, consumer, seen, out, returned, escaped,
                    isResuming, hasStorage, nextId, ctx, stored, runArgs, log,
                    runs >>
    /\ UNCHANGED oaVars

\* `if isinstance(event, InputRequiredEvent):` at the end of the loop body
LI_Check ==
    /\ UNCHANGED << facVars, libVars >>
    /\ adapter = "llamaindex"
    /\ \/ pc = "check"
       \/ pc = "ev" /\ consumer = "awaiting"
    /\ IF Cur = "InputRequiredEvent"
       THEN IF ~isResumed /\ isResuming
            THEN /\ isResumed' = TRUE
                 /\ pc' = "loop"
            ELSE /\ pc' = "suspend"
                 /\ UNCHANGED isResumed
       ELSE /\ pc' = "loop"
            /\ UNCHANGED isResumed
    /\ UNCHANGED << adapter, op, consumer, seen, out, returned, escaped,
                    isResuming, hasStorage, nextId, ctx, stored, runArgs, log,
                    runs >>
    /\ UNCHANGED oaVars

\* the workflow's event stream is exhausted
LI_StreamEnds ==
    /\ UNCHANGED << facVars, libVars >>
    /\ adapter = "llamaindex"
    /\ pc = "loop"
    /\ consumer = "awaiting"
    /\ pc' = "await"
    /\ UNCHANGED << adapter, op, consumer, seen, out, returned, escaped,
                    isResuming, hasStorage, nextId >>
    /\ UNCHANGED oaVars
    /\ UNCHANGED liVars

\* suspended: `await asyncio.sleep(0)` returns, then self._save_context()
LI_SaveContext ==
    /\ UNCHANGED << facVars, libVars >>
    /\ adapter = "llamaindex"
    /\ pc = "suspend"
    /\ stored' = SaveContext(hasStorage, ctx, stored)
    /\ log' = IF hasStorage /\ ctx # NoCtx THEN Append(log, "save_context") ELSE log
    /\ pc' = "cancel"
    /\ UNCHANGED << adapter, op, consumer, seen, out, returned, escaped,
                    isResuming, hasStorage, nextId, ctx, runArgs, isResumed, runs >>
    /\ UNCHANGED oaVars

\* `await handler.cancel_run()`
LI_CancelRun ==
    /\ UNCHANGED << facVars, libVars >>
    /\ adapter = "llamaindex"
    /\ pc = "cancel"
    /\ log' = Append(log, "cancel_run")
    /\ pc' = "yield"
    /\ UNCHANGED << adapter, op, consumer, seen, out, returned, escaped,
                    isResuming, hasStorage, nextId, ctx, stored, runArgs, isResumed,
                    runs >>
    /\ UNCHANGED oaVars

\* mutant: the `else:` is missing, the success result follows the suspended one
LI_YieldSuspended_FallThrough ==
    /\ UNCHANGED << facVars, libVars >>
    /\ adapter = "llamaindex"
    /\ pc = "yield"
    /\ Yield(Item("result", 0, "SUSPENDED"))
    /\ log' = Append(log, "yield_suspended")
    /\ pc' = "await"
    /\ UNCHANGED << adapter, op, seen, returned, escaped, isResuming, hasStorage,
                    nextId, ctx, stored, runArgs, isResumed, runs >>
    /\ UNCHANGED oaVars

\* yield self._create_suspended_result(suspended_event)
LI_YieldSuspended ==
    /\ UNCHANGED << facVars, libVars >>
    /\ adapter = "llamaindex"
    /\ pc = "yield"
    /\ Yield(LI_CreateSuspendedResult)
    /\ log' = Append(log, "yield_suspended")
    /\ pc' = "res"
    /\ UNCHANGED << adapter, op, seen, returned, escaped, isResuming, hasStorage,
                    nextId, ctx, stored, runArgs, isResumed, runs >>
    /\ UNCHANGED oaVars

\* not suspended: yield self._create_success_result(await handler)
LI_AwaitHandler ==
    /\ UNCHANGED << facVars, libVars >>
    /\ adapter = "llamaindex"
    /\ pc = "await"
    /\ Yield(LI_CreateSuccessResult)
    /\ log' = Append(log, "yield_successful")
    /\ pc' = "res"
    /\ UNCHANGED << adapter, op, seen, returned, escaped, isResuming, hasStorage,
                    nextId, ctx, stored, runArgs, isResumed, runs >>
    /\ UNCHANGED oaVars

\* the workflow raises while the adapter awaits the stream or the handler
LI_Raises ==
    /\ UNCHANGED << facVars, libVars >>
    /\ adapter = "llamaindex"
    /\ pc \in {"loop", "await"}
    /\ consumer = "awaiting"
    /\ \E c \in LIRaisable : Fail(LI_Boundary(Raised(c, RaisedId), WrapperId))
    /\ UNCHANGED << adapter, op, seen, out, returned, isResuming, hasStorage,
                    nextId >>
    /\ UNCHANGED oaVars
    /\ UNCHANGED liVars

\* dispose(): self._context = None
LI_Dispose ==
    /\ UNCHANGED << facVars, libVars >>
    /\ adapter = "llamaindex"
    /\ pc \in Between
    /\ ctx # NoCtx
    /\ ctx' = NoCtx
    /\ UNCHANGED << adapter, op, pc, consumer, seen, out, returned, escaped,
                    isResuming, hasStorage, nextId, stored, runArgs, isResumed, log,
                    runs >>
    /\ UNCHANGED oaVars

Next ==
    \/ OA_Start
    \/ OA_Pull
    \/ OA_StreamEnds
    \/ OA_Raises
    \/ OA_Check
    \/ OA_AfterBreakpoint
    \/ OA_WaitReturns
    \/ OA_Emit
    \/ OA_AfterEvent
    \/ OA_Final
    \/ OA_RunReturns
    \/ LI_Start
    \/ LI_Pull
    \/ LI_Check
    \/ LI_StreamEnds
    \/ LI_SaveContext
    \/ LI_CancelRun
    \/ LI_YieldSuspended
    \/ LI_AwaitHandler
    \/ LI_Raises
    \/ LI_Dispose
    \/ Execute_Iterate
    \/ Caller_Next
    \/ Task_Set
    \/ Finish

Spec == Init /\ [][Next]_vars

\* The runs of the OpenAI adapter whose options carry no resume event. The
\* asyncio loop runs every coroutine that is ready and the iterating side
\* keeps asking for the next item: weak fairness of the steps.
InitNoResume ==
    /\ \E st \in BOOLEAN : RuntimeInit("openai", st)
    /\ FactoryInit(TRUE, FALSE, FALSE, FALSE)
    /\ LibInit

OA_StartNoResume == OA_Start /\ ~hasResume'

NextNoResume ==
    \/ OA_StartNoResume
    \/ OA_Pull
    \/ OA_StreamEnds
    \/ OA_Raises
    \/ OA_Check
    \/ OA_AfterBreakpoint
    \/ OA_Emit
    \/ OA_AfterEvent
    \/ OA_Final
    \/ OA_RunReturns
    \/ Execute_Iterate
    \/ Caller_Next
    \/ Finish

FairSpecNoResume ==
    InitNoResume /\ [][NextNoResume]_vars /\ WF_vars(NextNoResume)

(***************************************************************************)
(* Claims about the runtime adapters                                        *)
(***************************************************************************)
Range(q) == { q[i] : i \in 1..Len(q) }

\* number of breakpoint results yielded for the i-th event of the stream
BreakpointCount(i) ==
    Cardinality({ j \in 1..Len(out) : out[j].kind = "breakpoint" /\ out[j].idx = i })

\* the event is a tool call whose tool, or a handoff whose target agent, is named
NamedIn(event, names) ==
    /\ event.type = RunItem
    /\ \/ event.name = "tool_called" /\ event.tool \in Range(names)
       \/ event.name = "handoff_requested" /\ event.target \in Range(names)

\* the i-th event has passed the breakpoint check of the loop body
Checked(i) == i < Len(seen) \/ pc # "check"

\* C1: with a list of names as breakpoints, every event of the agent stream
\* gets exactly one breakpoint result if it is a tool_called event whose tool
\* name, or a handoff_requested event whose target agent name, is in the list,
\* and no breakpoint result otherwise.
C1_PausesExactlyAtNamed ==
    (adapter = "openai" /\ breakpoints.kind = "list") =>
        \A i \in 1..Len(seen) :
            BreakpointCount(i) =
                IF Checked(i) /\ NamedIn(seen[i], breakpoints.names) THEN 1 ELSE 0

C1_Witness ==
    /\ adapter = "openai"
    /\ pc = "done"
    /\ breakpoints = Bp("list", << ToolA >>)
    /\ seen = << Ev(RunItem, "tool_called", NameB, None),
                 Ev(RunItem, "tool_called", ToolA, None) >>
    /\ BreakpointCount(2) = 1
    /\ BreakpointCount(1) = 0

IsRuntimeEvent(x) == x.kind \in {"message", "state"}

\* every runtime event of an event the adapter pauses at comes after the
\* breakpoint result of that event
BreakpointFirst ==
    \A j \in 1..Len(out) :
        (IsRuntimeEvent(out[j]) /\ ShouldPauseAtEvent(seen[out[j].idx], breakpoints))
            => \E k \in 1..(j - 1) :
                   out[k].kind = "breakpoint" /\ out[k].idx = out[j].idx

\* from the yield of a breakpoint result on, with a resume event: the next
\* step of the adapter clears the event and starts waiting, and nothing is
\* yielded or consumed until the wait ends, which takes the event being set
PausedStep ==
    (adapter = "openai" /\ hasResume /\ pc \in {"bp", "wait"}) =>
        /\ out' = out
        /\ seen' = seen
        /\ (pc = "bp" /\ pc' # "bp") => (pc' = "wait" /\ ~resumeSet')
        /\ (pc = "wait" /\ pc' # "wait") => (resumeSet /\ pc' = "emit")

\* C2: with a resume event in the options, after the breakpoint result of a
\* matching event the adapter clears the event and neither emits the runtime
\* event of that event nor consumes a later event before the event is set
\* again; the breakpoint result always precedes the runtime event of its event.
C2_PausesUntilResumed ==
    /\ [](adapter = "openai" => BreakpointFirst)
    /\ [][PausedStep]_vars

C2_Witness ==
    /\ adapter = "openai"
    /\ hasResume
    /\ Len(out) >= 2
    /\ out[1].kind = "breakpoint"
    /\ IsRuntimeEvent(out[2])
    /\ out[2].idx = out[1].idx

\* C3: a caller that sets the resume event for every breakpoint result it
\* receives, before it asks for the next item, never leaves the adapter
\* blocked on the resume event for a breakpoint it has signalled: the event
\* is still set when the adapter waits for it.
C3_SignalledBreakpointResumes ==
    (adapter = "openai" /\ policy = "sync" /\ pc = "wait" /\ signalled = Len(seen))
        => resumeSet

ResultYielded == Len(out) > 0 /\ Last.kind = "result"

\* C4: with breakpoints but without a resume event the adapter never waits
\* at a breakpoint: the step after a breakpoint result goes on with the event,
\* and the run then reaches its final result (or the agent's failure).
C4_AutoResumes ==
    /\ []((adapter = "openai" /\ ~hasResume) => pc # "wait")
    /\ [][(adapter = "openai" /\ ~hasResume /\ pc = "bp" /\ pc' # "bp")
             => (pc' = "emit" /\ out' = out /\ seen' = seen)]_vars
    /\ (adapter = "openai" /\ ~hasResume /\ pc = "bp")
           ~> (ResultYielded \/ escaped # NoExc)

C4_Witness ==
    /\ adapter = "openai"
    /\ ~hasResume
    /\ pc = "done"
    /\ BreakpointCount(1) = 1
    /\ BreakpointCount(2) = 1
    /\ ResultYielded

InputRequiredSeen == \E i \in 1..Len(seen) : seen[i] = "InputRequiredEvent"

\* what the run has done after the events it consumed
AfterEvents == SubSeq(log, Len(seen) + 1, Len(log))

\* C5: in a non-resuming run with storage, once the event stream produced an
\* InputRequiredEvent no further event is consumed, then the context is saved
\* to storage, then the run is cancelled, then a SUSPENDED result is yielded,
\* and no SUCCESSFUL result is yielded.
C5_SuspendsInOrder ==
    (adapter = "llamaindex" /\ ~isResuming /\ hasStorage /\ InputRequiredSeen) =>
        /\ \A i \in 1..Len(seen) : (seen[i] = "InputRequiredEvent") <=> (i = Len(seen))
        /\ pc \in {"ev", "check", "suspend", "cancel", "yield", "res", "done"}
        /\ \A j \in 1..Len(out) : out[j].info # "SUCCESSFUL"
        /\ AfterEvents =
             IF pc \in {"ev", "check", "suspend"} THEN << >>
             ELSE IF pc = "cancel" THEN << "save_context" >>
             ELSE IF pc = "yield" THEN << "save_context", "cancel_run" >>
             ELSE << "save_context", "cancel_run", "yield_suspended" >>
        /\ (pc \in {"cancel", "yield", "res", "done"} /\ ctx # NoCtx)
               => stored = ToDict(ctx)
        /\ pc \in {"res", "done"} => Last = Item("result", 0, "SUSPENDED")

C5_Witness ==
    /\ adapter = "llamaindex"
    /\ ~isResuming
    /\ hasStorage
    /\ pc = "done"
    /\ Len(seen) = 2
    /\ seen[2] = "InputRequiredEvent"
    /\ Last = Item("result", 0, "SUSPENDED")
    /\ stored.progress = 2

\* a resuming run starts on a runtime whose storage holds a saved context
ResumeStarts ==
    /\ adapter = "llamaindex"
    /\ pc \in Between
    /\ pc' = "loop"
    /\ isResuming'
    /\ hasStorage
    /\ stored # NoCtx

C7_ResultIsLast ==
    op = "stream" =>
        /\ \A j \in 1..Len(out) : out[j].kind = "result" => j = Len(out)
        /\ pc = "done" =>
             /\ ResultYielded
             /\ Last.info \in IF adapter = "llamaindex"
                              THEN {"SUCCESSFUL", "SUSPENDED"}
                              ELSE {"SUCCESSFUL"}

C7_Witness ==
    /\ op = "stream"
    /\ pc = "done"
    /\ Len(out) = 4
    /\ out[1].kind = "breakpoint"
    /\ IsRuntimeEvent(out[2])
    /\ IsRuntimeEvent(out[3])
    /\ out[4].kind = "result"

OwnError == IF adapter = "openai" THEN OAError ELSE LIError

\* C9: an exception (an instance of Exception) that leaves execute() or
\* stream() is of the adapter's own runtime error type and carries a code, a
\* title and a category; it is never a wrapper around an error of that type:
\* such an error leaves as the object that was raised.
C9_OnlyOwnErrorsEscape ==
    (escaped # NoExc /\ IsException(escaped)) =>
        /\ escaped.cls = OwnError
        /\ escaped.code # None /\ escaped.title # None /\ escaped.category # None
        /\ escaped.cause # OwnError
        /\ escaped.id = RaisedId => escaped = Raised(OwnError, RaisedId)
        /\ escaped.id # RaisedId => (escaped.id = WrapperId /\ escaped.cause # None)

C9_Witness ==
    /\ adapter = "openai"
    /\ op = "stream"
    /\ Len(seen) = 2
    /\ escaped = Raised(OAError, RaisedId)

(***************************************************************************)
(* UiPathOpenAIAgentRuntimeFactory                                          *)
(***************************************************************************)
Configured == Range(Entrypoints)                 \* keys of config.agents

LoadRaisable == {"ImportError", "ModuleNotFoundError", "TypeError", "ValueError",
                 "JSONDecodeError", "RuntimeError", OAError, "CancelledError"}

ConfigMissingError ==
    Exc(OAError, "CONFIG_MISSING", "Invalid configuration", "DEPLOYMENT",
        WrapperId, None)
AgentNotFoundError ==
    Exc(OAError, "AGENT_NOT_FOUND", "Agent not found", "DEPLOYMENT", WrapperId, None)

\* mutant: `except Exception` comes before the specific handlers
LoadAgentError_GenericFirst(e, id) ==
    IF e.cls = OAError THEN e
    ELSE IF IsException(e)
    THEN Exc(OAError, "AGENT_LOAD_ERROR", "Failed to load agent", "USER", id, e.cls)
    ELSE e

\* the except clauses around `await agent_loader.load()` in _load_agent
LoadAgentError(e, id) ==
    IF e.cls = OAError THEN e
    ELSE IF IsInstance(e.cls, "ImportError")
    THEN Exc(OAError, "AGENT_IMPORT_ERROR", "Agent import failed", "USER", id, e.cls)
    ELSE IF IsInstance(e.cls, "TypeError")
    THEN Exc(OAError, "AGENT_TYPE_ERROR", "Invalid agent type", "USER", id, e.cls)
    ELSE IF IsInstance(e.cls, "ValueError")
    THEN Exc(OAError, "AGENT_VALUE_ERROR", "Invalid agent value", "USER", id, e.cls)
    ELSE IF IsException(e)
    THEN Exc(OAError, "AGENT_LOAD_ERROR", "Failed to load agent", "USER", id, e.cls)
    ELSE e

\* mutant: the file of the previous run is never deleted
StateFileAfterGetStoragePath_Keep(file, res, job) == file

\* _get_storage_path: whether the state file exists afterwards
StateFileAfterGetStoragePath(file, res, job) ==
    IF ~res /\ ~job THEN FALSE ELSE file

\* a task calls new_runtime(name, ...), discover_runtimes() or dispose()
F_Call(p) ==
    /\ fpc[p] = "idle"
    /\ \/ \E e \in Names :
            /\ todo' = [todo EXCEPT ![p] = << e >>]
            /\ fpc' = [fpc EXCEPT ![p] = "resolve"]
       \/ /\ todo' = [todo EXCEPT ![p] = IF cfgExists THEN Entrypoints ELSE << >>]
          /\ fpc' = [fpc EXCEPT ![p] = IF cfgExists THEN "resolve" ELSE "done"]
       \/ /\ fpc' = [fpc EXCEPT ![p] = "cleanup"]
          /\ UNCHANGED todo
    /\ UNCHANGED << cfgExists, ctxResume, ctxJobId, stateFile, removed, agentCache,
                    agentLoaders, agentLock, sharedStorage, storageLock, got, made,
                    failure, nextObj >>
    /\ UNCHANGED << rtVars, libVars >>

\* mutant: _resolve_agent does not take the lock
F_Acquire_NoLock(p) ==
    /\ fpc[p] = "resolve"
    /\ agentLock' = p
    /\ fpc' = [fpc EXCEPT ![p] = "locked"]
    /\ UNCHANGED << cfgExists, ctxResume, ctxJobId, stateFile, removed, agentCache,
                    agentLoaders, sharedStorage, storageLock, todo, got, made,
                    failure, nextObj >>
    /\ UNCHANGED << rtVars, libVars >>

\* _resolve_agent: `async with self._agent_lock:`
F_Acquire(p) ==
    /\ fpc[p] = "resolve"
    /\ agentLock = 0
    /\ agentLock' = p
    /\ fpc' = [fpc EXCEPT ![p] = "locked"]
    /\ UNCHANGED << cfgExists, ctxResume, ctxJobId, stateFile, removed, agentCache,
                    agentLoaders, sharedStorage, storageLock, todo, got, made,
                    failure, nextObj >>
    /\ UNCHANGED << rtVars, libVars >>

\* under the lock: return the cached agent, or start _load_agent, which
\* fails at once or creates the loader and awaits its load()
F_Lookup(p) ==
    /\ fpc[p] = "locked"
    /\ LET e == Head(todo[p]) IN
         IF agentCache[e] # 0
         THEN /\ got' = [got EXCEPT ![p] = agentCache[e]]
              /\ agentLock' = 0
              /\ fpc' = [fpc EXCEPT ![p] = "storage"]
              /\ UNCHANGED << agentLoaders, failure >>
         ELSE IF ~cfgExists \/ e \notin Configured
         THEN /\ failure' = [failure EXCEPT ![p] = IF ~cfgExists
                                                   THEN ConfigMissingError
                                                   ELSE AgentNotFoundError]
              /\ agentLock' = 0
              /\ fpc' = [fpc EXCEPT ![p] = "failed"]
              /\ UNCHANGED << agentLoaders, got >>
         ELSE /\ agentLoaders' = agentLoaders \cup {e}
              /\ fpc' = [fpc EXCEPT ![p] = "loading"]
              /\ UNCHANGED << agentLock, got, failure >>
    /\ UNCHANGED << cfgExists, ctxResume, ctxJobId, stateFile, removed, agentCache,
                    sharedStorage, storageLock, todo, made, nextObj >>
    /\ UNCHANGED << rtVars, libVars >>

\* load() returns an agent: it is cached and returned, the lock released
F_Loaded(p) ==
    /\ fpc[p] = "loading"
    /\ agentCache' = [agentCache EXCEPT ![Head(todo[p])] = nextObj]
    /\ got' = [got EXCEPT ![p] = nextObj]
    /\ nextObj' = nextObj + 1
    /\ agentLock' = 0
    /\ fpc' = [fpc EXCEPT ![p] = "storage"]
    /\ UNCHANGED << cfgExists, ctxResume, ctxJobId, stateFile, removed, agentLoaders,
                    sharedStorage, storageLock, todo, made, failure >>
    /\ UNCHANGED << rtVars, libVars >>

\* load() raises: the error is mapped and leaves the call, the lock released
F_LoadRaises(p) ==
    /\ fpc[p] = "loading"
    /\ \E c \in LoadRaisable :
         failure' = [failure EXCEPT ![p] = LoadAgentError(Raised(c, RaisedId),
                                                         WrapperId)]
    /\ agentLock' = 0
    /\ fpc' = [fpc EXCEPT ![p] = "failed"]
    /\ UNCHANGED << cfgExists, ctxResume, ctxJobId, stateFile, removed, agentCache,
                    agentLoaders, sharedStorage, storageLock, todo, got, made,
                    nextObj >>
    /\ UNCHANGED << rtVars, libVars >>

\* the runtime is built and the call goes on to its next entrypoint or returns
RuntimeMade(p, s) ==
    /\ made' = [made EXCEPT ![p] = Runtime(got[p], s)]
    /\ todo' = [todo EXCEPT ![p] = Tail(todo[p])]
    /\ fpc' = [fpc EXCEPT ![p] = IF Len(todo[p]) > 1 THEN "resolve" ELSE "done"]

\* _create_runtime_instance: `storage.storage_path if storage else None`, the
\* path every storage of the factory is opened at
StoragePath(s) == IF s = 0 THEN Nothing ELSE Some("state.db")

\* mutant: _get_or_create_storage does not take _storage_lock
F_GetStorage_NoLock(p) ==
    /\ fpc[p] = "storage"
    /\ IF sharedStorage = 0
       THEN /\ stateFile' = StateFileAfterGetStoragePath(stateFile, ctxResume,
                                                         ctxJobId)
            /\ removed' = (removed \/ (stateFile /\ ~stateFile'))
            /\ sharedStorage' = nextObj
            /\ nextObj' = nextObj + 1
            /\ storageLock' = p
            /\ fpc' = [fpc EXCEPT ![p] = "setup"]
            /\ UNCHANGED << made, todo >>
       ELSE /\ RuntimeMade(p, sharedStorage)
            /\ UNCHANGED << stateFile, removed, sharedStorage, nextObj,
                            storageLock >>
    /\ UNCHANGED << cfgExists, ctxResume, ctxJobId, agentCache, agentLoaders,
                    agentLock, got, failure >>
    /\ UNCHANGED << rtVars, libVars >>

\* _create_runtime_instance: _get_or_create_storage under _storage_lock.
\* Without a storage yet, _get_storage_path runs; the factory context of the
\* model always has runtime_dir and state_file, so a storage is created and
\* its setup() awaited.
F_GetStorage(p) ==
    /\ fpc[p] = "storage"
    /\ storageLock = 0
    /\ IF sharedStorage = 0
       THEN /\ stateFile' = StateFileAfterGetStoragePath(stateFile, ctxResume,
                                                         ctxJobId)
            /\ removed' = (removed \/ (stateFile /\ ~stateFile'))
            /\ sharedStorage' = nextObj
            /\ nextObj' = nextObj + 1
            /\ storageLock' = p
            /\ fpc' = [fpc EXCEPT ![p] = "setup"]
            /\ UNCHANGED << made, todo >>
       ELSE /\ RuntimeMade(p, sharedStorage)
            /\ UNCHANGED << stateFile, removed, sharedStorage, nextObj,
                            storageLock >>
    /\ UNCHANGED << cfgExists, ctxResume, ctxJobId, agentCache, agentLoaders,
                    agentLock, got, failure >>
    /\ UNCHANGED << rtVars, libVars >>

\* setup() has created the database; `return self._storage` and the runtime
F_SetupDone(p) ==
    /\ fpc[p] = "setup"
    /\ stateFile' = TRUE
    /\ storageLock' = 0
    /\ RuntimeMade(p, sharedStorage)
    /\ UNCHANGED << cfgExists, ctxResume, ctxJobId, removed, agentCache,
                    agentLoaders, agentLock, sharedStorage, got, failure, nextObj >>
    /\ UNCHANGED << rtVars, libVars >>

\* dispose(): the loaders are cleaned up, then loaders and cache are cleared
F_DisposeClear(p) ==
    /\ fpc[p] = "cleanup"
    /\ agentLoaders' = {}
    /\ agentCache' = [e \in Names |-> 0]
    /\ fpc' = [fpc EXCEPT ![p] = IF sharedStorage # 0 THEN "sdispose" ELSE "done"]
    /\ UNCHANGED << cfgExists, ctxResume, ctxJobId, stateFile, removed, agentLock,
                    sharedStorage, storageLock, todo, got, made, failure, nextObj >>
    /\ UNCHANGED << rtVars, libVars >>

\* dispose(): `await self._storage.dispose()` returns, self._storage = None
F_DisposeStorage(p) ==
    /\ fpc[p] = "sdispose"
    /\ sharedStorage' = 0
    /\ fpc' = [fpc EXCEPT ![p] = "done"]
    /\ UNCHANGED << cfgExists, ctxResume, ctxJobId, stateFile, removed, agentCache,
                    agentLoaders, agentLock, storageLock, todo, got, made, failure,
                    nextObj >>
    /\ UNCHANGED << rtVars, libVars >>

InitFactory ==
    /\ RuntimeInit("openai", TRUE)
    /\ \E cfg \in BOOLEAN, res \in BOOLEAN, job \in BOOLEAN, file \in BOOLEAN :
         FactoryInit(cfg, res, job, file)
    /\ LibInit

NextFactory ==
    \/ \E p \in Tasks : F_Call(p)
    \/ \E p \in Tasks : F_Acquire(p)
    \/ \E p \in Tasks : F_Lookup(p)
    \/ \E p \in Tasks : F_Loaded(p)
    \/ \E p \in Tasks : F_LoadRaises(p)
    \/ \E p \in Tasks : F_GetStorage(p)
    \/ \E p \in Tasks : F_SetupDone(p)
    \/ \E p \in Tasks : F_DisposeClear(p)
    \/ \E p \in Tasks : F_DisposeStorage(p)

SpecFactory == InitFactory /\ [][NextFactory]_vars

(***************************************************************************)
(* Claims about the factory                                                 *)
(***************************************************************************)
InResolve(p) == fpc[p] \in {"locked", "loading"}

\* a task is inside `async with self._agent_lock` only as the lock's holder
LoadsSerialized == \A p \in Tasks : InResolve(p) => agentLock = p

\* a cached agent is never replaced by another one: the entry stays or is
\* removed (dispose)
CacheStable ==
    \A e \in Names : agentCache[e] # 0 => agentCache'[e] \in {agentCache[e], 0}

\* a load starts only for an entrypoint that has no cached agent
LoadsOnlyAbsent ==
    \A p \in Tasks :
        (fpc[p] # "loading" /\ fpc'[p] = "loading") => agentCache[Head(todo[p])] = 0

\* _resolve_agent returns the agent the cache holds; when the cache held one
\* at the lookup it returns that one and nothing is loaded
ReturnsCached ==
    \A p \in Tasks :
        (InResolve(p) /\ fpc'[p] = "storage") =>
            /\ got'[p] # 0
            /\ got'[p] = agentCache'[Head(todo[p])]
            /\ agentCache[Head(todo[p])] # 0 =>
                 /\ got'[p] = agentCache[Head(todo[p])]
                 /\ fpc[p] = "locked"
                 /\ nextObj' = nextObj

\* C8: for every interleaving of new_runtime, discover_runtimes (and dispose)
\* calls on one factory, loads are serialized by the agent lock, an agent is
\* loaded at most once while its entry stays cached, and every caller that
\* finds the entry gets the cached agent object without another load.
C8_OneLoadPerEntrypoint ==
    /\ []LoadsSerialized
    /\ [][CacheStable /\ LoadsOnlyAbsent /\ ReturnsCached]_vars

C8_Witness ==
    /\ fpc[1] = "done"
    /\ fpc[2] = "loading"
    /\ Head(todo[2]) = "helper"
    /\ made[1].agent = agentCache["main"]
    /\ agentCache["main"] # 0
    /\ got[2] = agentCache["main"]
    /\ nextObj = 3

\* the code the claim gives for a load failure raised from class c
ClaimedCode(c) ==
    IF IsInstance(c, "ImportError") THEN "AGENT_IMPORT_ERROR"
    ELSE IF IsInstance(c, "TypeError") THEN "AGENT_TYPE_ERROR"
    ELSE IF IsInstance(c, "ValueError") THEN "AGENT_VALUE_ERROR"
    ELSE "AGENT_LOAD_ERROR"

\* C10: every load failure is reported as the factory's runtime error with
\* the code of its cause: CONFIG_MISSING without configuration file,
\* AGENT_NOT_FOUND for a name the configuration lacks, AGENT_IMPORT_ERROR,
\* AGENT_TYPE_ERROR, AGENT_VALUE_ERROR for ImportError, TypeError, ValueError,
\* AGENT_LOAD_ERROR for any other exception; a runtime error raised by the
\* loader leaves unchanged.
C10_LoadErrorCodes ==
    \A p \in Tasks :
        (failure[p] # NoExc /\ IsException(failure[p])) =>
            /\ failure[p].cls = OAError
            /\ failure[p].cause # OAError
            /\ IF failure[p].id = RaisedId
               THEN failure[p] = Raised(OAError, RaisedId)
               ELSE IF ~cfgExists
               THEN failure[p].code = "CONFIG_MISSING" /\ failure[p].cause = None
               ELSE IF Head(todo[p]) \notin Configured
               THEN failure[p].code = "AGENT_NOT_FOUND" /\ failure[p].cause = None
               ELSE /\ failure[p].cause \in ExceptionClasses
                    /\ failure[p].code = ClaimedCode(failure[p].cause)

C10_Witness ==
    /\ failure[1].code = "AGENT_IMPORT_ERROR"
    /\ failure[1].cause = "ModuleNotFoundError"
    /\ failure[2].code = "AGENT_NOT_FOUND"

\* the step of _get_or_create_storage that creates the shared storage
StorageCreated == sharedStorage = 0 /\ sharedStorage' # 0

RunFailed ==
    /\ adapter = "openai"
    /\ pc = "failed"
    /\ raisedCls # None
    /\ IsException(Raised(raisedCls, RaisedId))

\* C12: when the agent run fails in a non-resuming run with a storage path,
\* the deletion of the session file is attempted, and the file is gone unless
\* the deletion itself raised; whether it raised or not, the error that leaves
\* is the failure of the run (as the boundary reports it); in a resuming run
\* the session file is left alone.
C12_CleanupKeepsPrimaryError ==
    RunFailed =>
        /\ escaped = OA_Boundary(Raised(raisedCls, RaisedId), WrapperId)
        /\ (hasStorage /\ ~isResuming) =>
               /\ cleanup \in {"removed", "failed"}
               /\ sessionFile <=> (cleanup = "failed")
        /\ (hasStorage /\ isResuming) => (cleanup = "skipped" /\ sessionFile)

C12_Witness ==
    /\ RunFailed
    /\ hasStorage
    /\ ~isResuming
    /\ cleanup = "failed"
    /\ sessionFile
    /\ raisedCls = "TimeoutError"
    /\ escaped.code = "TIMEOUT_ERROR"

(***************************************************************************)
(* PickleResumableStorage and SqliteAgentStorage                           *)
(***************************************************************************)
notStVars == << rtVars, facVars, fnVars, shVars >>

\* _load_data: {} when the file does not exist
LoadData(file) == IF file = NoFile THEN EmptyData ELSE file[1]

\* _serialize_trigger: the key is the inbox id of an API trigger, a dict
\* payload becomes its JSON text, another truthy payload its str() and a
\* missing one None; interrupt_id is not recorded
SerializeTrigger(t) ==
    [type |-> t.trigger_type,
     key |-> IF t.inbox_id # None THEN t.inbox_id ELSE t.item_key,
     name |-> t.trigger_type,
     payload |-> IF t.payload = "dict" THEN "json text"
                 ELSE IF t.payload # None THEN "str"
                 ELSE None]

\* _deserialize_trigger: api_resume is rebuilt for the API type from the key
DeserializeTrigger(d) ==
    Trigger(d.type, d.key, IF d.type = "API" THEN d.key ELSE None, d.payload, None)

\* mutant: a trigger already in the file is kept (setdefault)
PickleAfterSaveTrigger_KeepFirst(file, t) ==
    IF LoadData(file).resume_trigger # Nothing THEN Some(LoadData(file))
    ELSE Some([LoadData(file) EXCEPT !.resume_trigger = Some(SerializeTrigger(t))])

\* save_trigger: the file afterwards
PickleAfterSaveTrigger(file, t) ==
    Some([LoadData(file) EXCEPT !.resume_trigger = Some(SerializeTrigger(t))])

\* get_latest_trigger
GetLatestTrigger(file) ==
    IF file = NoFile THEN Nothing
    ELSE IF LoadData(file).resume_trigger = Nothing THEN Nothing
    ELSE Some(DeserializeTrigger(LoadData(file).resume_trigger[1]))

\* save_context: the file afterwards
PickleAfterSaveContext(file, c) ==
    Some([LoadData(file) EXCEPT !.workflow_context = Some(c)])

\* load_context
PickleLoadContext(file) ==
    IF file = NoFile THEN Nothing ELSE LoadData(file).workflow_context

SaveOp(o, id, v) == [op |-> o, id |-> id, value |-> v]

P_SaveTrigger ==
    /\ Len(stLog) < MaxSaves
    /\ \E t \in Triggers :
         /\ pickleFile' = PickleAfterSaveTrigger(pickleFile, t)
         /\ stLog' = Append(stLog, SaveOp("save_trigger", None, t))
    /\ UNCHANGED << triggerRows, stateRows, stGot >>
    /\ UNCHANGED notStVars

P_GetLatestTrigger ==
    /\ stGot' = Got("get_latest_trigger", None, GetLatestTrigger(pickleFile))
    /\ UNCHANGED << pickleFile, triggerRows, stateRows, stLog >>
    /\ UNCHANGED notStVars

P_SaveContext ==
    /\ Len(stLog) < MaxSaves
    /\ \E c \in ContextDicts :
         /\ pickleFile' = PickleAfterSaveContext(pickleFile, c)
         /\ stLog' = Append(stLog, SaveOp("save_context", None, c))
    /\ UNCHANGED << triggerRows, stateRows, stGot >>
    /\ UNCHANGED notStVars

P_LoadContext ==
    /\ stGot' = Got("load_context", None, PickleLoadContext(pickleFile))
    /\ UNCHANGED << pickleFile, triggerRows, stateRows, stLog >>
    /\ UNCHANGED notStVars

\* SqliteAgentStorage.save_triggers: the rows of the runtime id are replaced
RowsAfterSaveTriggers(rows, id, list) == [rows EXCEPT ![id] = list]

\* SqliteAgentStorage.get_triggers: None when the runtime id has no rows
GetTriggers(rows, id) == IF rows[id] = << >> THEN Nothing ELSE Some(rows[id])

\* the JSON text of a state and the value read back from it
JsonDumps(state) == << "json", state >>
JsonLoads(text) == text[2]

\* SqliteAgentStorage.save_state: the row of the runtime id is overwritten
RowsAfterSaveState(rows, id, state) == [rows EXCEPT ![id] = Some(JsonDumps(state))]

\* mutant: an empty state is reported as no state
LoadState_FalsyIsNone(rows, id) ==
    IF rows[id] = Nothing THEN Nothing
    ELSE IF JsonLoads(rows[id][1]) = "{}" THEN Nothing
    ELSE Some(JsonLoads(rows[id][1]))

\* SqliteAgentStorage.load_state: None when the runtime id has no row
LoadState(rows, id) ==
    IF rows[id] = Nothing THEN Nothing ELSE Some(JsonLoads(rows[id][1]))

S_SaveTriggers ==
    /\ Len(stLog) < MaxSaves
    /\ \E id \in RuntimeIds, list \in TriggerLists :
         /\ triggerRows' = RowsAfterSaveTriggers(triggerRows, id, list)
         /\ stLog' = Append(stLog, SaveOp("save_triggers", id, list))
    /\ UNCHANGED << pickleFile, stateRows, stGot >>
    /\ UNCHANGED notStVars

S_GetTriggers ==
    /\ \E id \in RuntimeIds :
         stGot' = Got("get_triggers", id, GetTriggers(triggerRows, id))
    /\ UNCHANGED << pickleFile, triggerRows, stateRows, stLog >>
    /\ UNCHANGED notStVars

S_SaveState ==
    /\ Len(stLog) < MaxSaves
    /\ \E id \in RuntimeIds, state \in States :
         /\ stateRows' = RowsAfterSaveState(stateRows, id, state)
         /\ stLog' = Append(stLog, SaveOp("save_state", id, state))
    /\ UNCHANGED << pickleFile, triggerRows, stGot >>
    /\ UNCHANGED notStVars

S_LoadState ==
    /\ \E id \in RuntimeIds :
         stGot' = Got("load_state", id, LoadState(stateRows, id))
    /\ UNCHANGED << pickleFile, triggerRows, stateRows, stLog >>
    /\ UNCHANGED notStVars

InitStorage ==
    /\ RuntimeInit("llamaindex", TRUE)
    /\ FactoryInit(TRUE, FALSE, FALSE, FALSE)
    /\ LibInit

NextStorage ==
    \/ P_SaveTrigger
    \/ P_GetLatestTrigger
    \/ P_SaveContext
    \/ P_LoadContext
    \/ S_SaveTriggers
    \/ S_GetTriggers
    \/ S_SaveState
    \/ S_LoadState

SpecStorage == InitStorage /\ [][NextStorage]_vars

(***************************************************************************)
(* Claims about the storages                                               *)
(***************************************************************************)
SavedAt(o, id) == { i \in 1..Len(stLog) : stLog[i].op = o /\ stLog[i].id = id }

\* the value most recently saved by operation o for the id, if any
LastSaved(o, id) ==
    IF SavedAt(o, id) = {} THEN Nothing
    ELSE Some(stLog[CHOOSE i \in SavedAt(o, id) :
                      \A j \in SavedAt(o, id) : j <= i].value)

\* a read operation o returns in this step
Reads(o) == stLog' = stLog /\ stGot'.op = o

\* the trigger v is trigger t as the pickle file records it: type, key (the
\* inbox id for an API trigger) and presence of a payload
RecordOf(v, t) ==
    /\ v.trigger_type = t.trigger_type
    /\ v.item_key = IF t.inbox_id # None THEN t.inbox_id ELSE t.item_key
    /\ v.inbox_id = t.inbox_id
    /\ (v.payload = None) <=> (t.payload = None)

notFnVars == << rtVars, facVars, stVars, shVars >>

\* the function has been called and its outcome is not known yet
Called(f) == call.fn = f /\ result = Pending

\* a PermissionDeniedError: status code, whether it carries a response, and
\* the response body (what response.json() gives, or that it raises)
Denied(entry, status, response, body, title, detail) ==
    [entry |-> entry, status_code |-> status, response |-> response,
     body |-> body, title |-> title, detail |-> detail]

\* titles of a JSON body: the key may be missing
Titles == { None, "License Not Available", "license not available",
            "LICENSE NOT AVAILABLE", "Forbidden", "License Not Available." }

DeniedCases ==
    { Denied(en, st, r, b, t, d) :
        en \in {"_chat", "_achat"}, st \in {"403", "401"}, r \in BOOLEAN,
        b \in {"dict", "list", "invalid json"}, t \in Titles,
        d \in {None, "No license for this tenant"} }

\* str.lower() of a title, "" being the default of a missing title
Lower(t) ==
    IF t = None THEN ""
    ELSE IF t \in {"License Not Available", "LICENSE NOT AVAILABLE"}
    THEN "license not available"
    ELSE IF t = "License Not Available." THEN "license not available."
    ELSE IF t = "Forbidden" THEN "forbidden"
    ELSE t

PermissionDenied == Raised("PermissionDeniedError", RaisedId)

LicenseError(e) ==
    Exc(LIError, "LICENSE_NOT_AVAILABLE",
        IF e.title = None THEN "License Not Available" ELSE e.title,
        "DEPLOYMENT", WrapperId, "PermissionDeniedError")

\* what the body of the `try:` raises: response.json() fails, or the license
\* error is raised from the PermissionDeniedError (NoExc: nothing)
RaisedInTry(e) ==
    IF e.body = "invalid json" THEN Raised("JSONDecodeError", WrapperId)
    ELSE IF e.body = "dict" /\ Lower(e.title) = "license not available"
    THEN LicenseError(e)
    ELSE NoExc

\* _handle_permission_denied_error: the `try:` is guarded by
\* `except Exception as parse_error:`, which logs a warning; then `raise e`
HandlePermissionDeniedError(e) ==
    IF e.status_code = "403" /\ e.response
    THEN IF RaisedInTry(e) # NoExc /\ ~IsException(RaisedInTry(e))
         THEN RaisedInTry(e)
         ELSE PermissionDenied
    ELSE PermissionDenied

\* _chat / _achat: the call of the base class raised PermissionDeniedError
LLM_Chat ==
    /\ Called("_handle_permission_denied_error")
    /\ result' = Some(HandlePermissionDeniedError(call.arg))
    /\ UNCHANGED call
    /\ UNCHANGED notFnVars

InitLLM ==
    /\ RuntimeInit("llamaindex", TRUE)
    /\ FactoryInit(TRUE, FALSE, FALSE, FALSE)
    /\ StorageInit
    /\ SharedIdle
    /\ \E e \in DeniedCases : call = Call("_handle_permission_denied_error", e)
    /\ result = Pending

NextLLM == LLM_Chat

SpecLLM == InitLLM /\ [][NextLLM]_vars

\* the failed gateway call is a 403 whose JSON body has the license title
LicenseDenied(e) ==
    /\ e.status_code = "403"
    /\ e.response
    /\ e.body = "dict"
    /\ Lower(e.title) = "license not available"

\* C15: a 403 PermissionDeniedError whose JSON body has the title 'license
\* not available' (in any case) leaves the chat call as the runtime error
\* with code LICENSE_NOT_AVAILABLE and category DEPLOYMENT; every other
\* PermissionDeniedError leaves unchanged.
C15_LicenseErrorRaised ==
    (call.fn = "_handle_permission_denied_error" /\ result # Pending) =>
        IF LicenseDenied(call.arg)
        THEN /\ result[1].cls = LIError
             /\ result[1].code = "LICENSE_NOT_AVAILABLE"
             /\ result[1].category = "DEPLOYMENT"
        ELSE result[1] = PermissionDenied

(***************************************************************************)
(* _prepare_agent_input on its own                                         *)
(***************************************************************************)
OA_PrepareAgentInput ==
    /\ Called("_prepare_agent_input")
    /\ result' = Some(PrepareAgentInputDict(call.arg))
    /\ UNCHANGED call
    /\ UNCHANGED notFnVars

InitInput ==
    /\ RuntimeInit("openai", TRUE)
    /\ FactoryInit(TRUE, FALSE, FALSE, FALSE)
    /\ StorageInit
    /\ SharedIdle
    /\ \E input \in AgentInputs : call = Call("_prepare_agent_input", input)
    /\ result = Pending

NextInput == OA_PrepareAgentInput

SpecInput == InitInput /\ [][NextInput]_vars

\* the two accepted shapes
HasMessagesList(input) ==
    ~input.none /\ input.messages # Absent /\ input.messages.t = "list"
HasMessageOnly(input) ==
    ~input.none /\ input.messages = Absent /\ input.message # Absent

\* C16: a dict whose 'messages' is a list gives that list, also when
\* 'message' is present; a dict with 'message' and no 'messages' gives the
\* string form of the message; every other input (None, empty, 'messages'
\* not a list, neither key) raises ValueError.
C16_TwoInputShapes ==
    (call.fn = "_prepare_agent_input" /\ result # Pending) =>
        IF HasMessagesList(call.arg)
        THEN result[1] = Returned(call.arg.messages)
        ELSE IF HasMessageOnly(call.arg)
        THEN /\ result[1].kind = "return"
             /\ result[1].value.t = "str"
             /\ result[1].value.v = call.arg.message.v
        ELSE /\ result[1].kind = "raise"
             /\ result[1].value.t = "ValueError"

\* both keys are present, 'messages' is a list, and the list was returned
C16_Witness ==
    /\ call.fn = "_prepare_agent_input"
    /\ result # Pending
    /\ HasMessagesList(call.arg)
    /\ call.arg.message # Absent
    /\ result[1] = Returned(call.arg.messages)

(***************************************************************************)
(* Schema extraction: get_entrypoints_schema                               *)
(***************************************************************************)
\* a type annotation: nothing, a plain type (str), a Pydantic model class, a
\* generic over a model (Optional[Model]), an AgentOutputSchema instance
\* wrapping a model, or a model whose JSON schema cannot be generated.
\* A model has a class name, properties and required properties.
TypeHint(kind, name, props, required) ==
    [kind |-> kind, name |-> name, props |-> props, required |-> required]
NoType == TypeHint("none", None, {}, {})
PlainType == TypeHint("plain", "str", {}, {})
OutputModel ==
    TypeHint("model", "OutputModel", {"response", "agent_used", "confidence"},
             {"response", "agent_used", "confidence"})
EmptyOutput == TypeHint("model", "EmptyOutput", {}, {})
WrapperOutputModel ==
    TypeHint("model", "WrapperOutputModel", {"status", "data"}, {"status", "data"})
EmptyResult == TypeHint("model", "EmptyResult", {}, {})
WrapperInputModel == TypeHint("model", "WrapperInputModel", {"text", "lang"}, {"text"})
OptionalOf(m) == [m EXCEPT !.kind = "optional"]
WrappedIn(m) == [m EXCEPT !.kind = "wrapped"]
Unschemable(m) == [m EXCEPT !.kind = "broken"]

OutputTypes ==
    { NoType, PlainType, OutputModel, EmptyOutput, OptionalOf(OutputModel),
      WrappedIn(OutputModel), Unschemable(OutputModel) }

\* the loaded object: None, the agent itself (not callable), or a function
\* with the annotation of its first parameter and its return annotation
Loaded(kind, param, ret) == [kind |-> kind, param |-> param, ret |-> ret]
NoObject == Loaded("none", NoType, NoType)
AgentObject == Loaded("agent", NoType, NoType)
LoadedObjects ==
    { NoObject, AgentObject } \cup
    { Loaded("callable", p, r) :
        p \in { NoType, PlainType, WrapperInputModel, OptionalOf(WrapperInputModel),
                Unschemable(WrapperInputModel) },
        r \in { NoType, PlainType, WrapperOutputModel, EmptyResult,
                Unschemable(WrapperOutputModel) } }

\* _is_pydantic_model: a BaseModel subclass, or a generic with one among its
\* arguments
IsPydanticModel(t) == t.kind \in {"model", "optional", "broken"}

\* one side of the schema; properties are represented by their names, which
\* _resolve_refs and _process_nullable_types keep
Section(props, required, title) ==
    [type |-> "object", properties |-> props, required |-> required,
     title |-> title]
EmptySection == Section({}, {}, None)

\* TypeAdapter(t).json_schema() raises
SchemaFails(t) == t.kind = "broken"

\* the section filled from TypeAdapter(t).json_schema(): the schema of a model
\* has title, properties and required; that of Optional[Model] has anyOf and
\* $defs only
SectionOf(t) ==
    IF t.kind = "optional" THEN EmptySection
    ELSE Section(t.props, t.required, t.name)

DefaultInput == Section({"message"}, {"message"}, None)
DefaultOutput == Section({"result"}, {"result"}, None)

EntrySchema(inp, sect) == [input |-> inp, output |-> sect]
NoSchema == EntrySchema(EmptySection, [EmptySection EXCEPT !.type = None])

\* _extract_schema_from_callable
ExtractSchemaFromCallable(obj) ==
    IF obj.kind # "callable" THEN NoSchema
    ELSE IF obj.param = NoType /\ obj.ret = NoType THEN NoSchema
    ELSE IF \/ (IsPydanticModel(obj.param) /\ SchemaFails(obj.param))
            \/ (IsPydanticModel(obj.ret) /\ SchemaFails(obj.ret))
    THEN NoSchema
    ELSE LET inp == IF IsPydanticModel(obj.param) THEN SectionOf(obj.param)
                   ELSE EmptySection
             sect == IF IsPydanticModel(obj.ret) THEN SectionOf(obj.ret)
                    ELSE EmptySection
         IN IF inp.properties # {} \/ sect.properties # {}
            THEN EntrySchema(inp, sect)
            ELSE NoSchema

\* the AgentOutputSchema wrapper is replaced by the model it holds
Unwrap(t) == IF t.kind = "wrapped" THEN [t EXCEPT !.kind = "model"] ELSE t

\* priority 1 succeeded: output_type is a model and its schema was generated
OutputExtracted(t) ==
    /\ Unwrap(t) # NoType
    /\ IsPydanticModel(Unwrap(t))
    /\ ~SchemaFails(Unwrap(t))

\* mutant: without the fallback to the default output schema
GetEntrypointsSchema_NoFallback(output_type, loaded_object) ==
    IF OutputExtracted(output_type)
    THEN EntrySchema(DefaultInput, SectionOf(Unwrap(output_type)))
    ELSE IF loaded_object # NoObject
            /\ ExtractSchemaFromCallable(loaded_object) # NoSchema
    THEN EntrySchema(DefaultInput, ExtractSchemaFromCallable(loaded_object).output)
    ELSE EntrySchema(DefaultInput, EmptySection)

\* mutant: the wrapper's annotations are consulted before the output_type
GetEntrypointsSchema_WrapperFirst(output_type, loaded_object) ==
    IF loaded_object # NoObject
       /\ ExtractSchemaFromCallable(loaded_object) # NoSchema
    THEN EntrySchema(DefaultInput, ExtractSchemaFromCallable(loaded_object).output)
    ELSE IF OutputExtracted(output_type)
    THEN EntrySchema(DefaultInput, SectionOf(Unwrap(output_type)))
    ELSE EntrySchema(DefaultInput, DefaultOutput)

\* get_entrypoints_schema(agent, loaded_object), agent.output_type given
GetEntrypointsSchema(output_type, loaded_object) ==
    IF OutputExtracted(output_type)
    THEN EntrySchema(DefaultInput, SectionOf(Unwrap(output_type)))
    ELSE IF loaded_object # NoObject
            /\ ExtractSchemaFromCallable(loaded_object) # NoSchema
    THEN EntrySchema(DefaultInput, ExtractSchemaFromCallable(loaded_object).output)
    ELSE EntrySchema(DefaultInput, DefaultOutput)

SchemaArgs(output_type, loaded_object) ==
    [output_type |-> output_type, loaded_object |-> loaded_object]

\* mutant: the unwrapped model is written back to agent.output_type
AgentAfterGetEntrypointsSchema_Unwrapped(arg) ==
    [arg EXCEPT !.output_type = Unwrap(arg.output_type)]

\* the agent and the loaded object after the call: output_type is read with
\* getattr into a local name, and only that local name is reassigned
AgentAfterGetEntrypointsSchema(arg) == arg

EntrypointsSchema ==
    /\ Called("get_entrypoints_schema")
    /\ result' = Some(GetEntrypointsSchema(call.arg.output_type,
                                           call.arg.loaded_object))
    /\ call' = Call(call.fn, AgentAfterGetEntrypointsSchema(call.arg))
    /\ UNCHANGED notFnVars

InitSchema ==
    /\ RuntimeInit("openai", TRUE)
    /\ FactoryInit(TRUE, FALSE, FALSE, FALSE)
    /\ StorageInit
    /\ SharedIdle
    /\ \E t \in OutputTypes, o \in LoadedObjects :
           call = Call("get_entrypoints_schema", SchemaArgs(t, o))
    /\ result = Pending

NextSchema == EntrypointsSchema

SpecSchema == InitSchema /\ [][NextSchema]_vars

SchemaReturned == call.fn = "get_entrypoints_schema" /\ result # Pending

\* the section is the generic output: one property 'result', required
IsGenericOutput(sect) ==
    /\ sect.type = "object"
    /\ sect.properties = {"result"}
    /\ sect.required = {"result"}

\* a function whose first annotated parameter or return annotation is a
\* Pydantic model with properties, none of whose schemas fails
YieldsSchema(obj) ==
    /\ obj.kind = "callable"
    /\ obj.param.kind # "broken"
    /\ obj.ret.kind # "broken"
    /\ \/ (obj.param.kind = "model" /\ obj.param.props # {})
       \/ (obj.ret.kind = "model" /\ obj.ret.props # {})

\* C17 as stated: for an agent that declares no output_type the output schema
\* is always the generic one, an object with the single required property
\* 'result'.
C17_NoOutputTypeGivesGeneric ==
    (SchemaReturned /\ call.arg.output_type = NoType) =>
        IsGenericOutput(result[1].output)

\* C17 amended: for an agent that declares no output_type the output schema
\* is the generic one unless a wrapper function is passed whose annotations
\* yield a schema; then it is the output schema extracted from the wrapper.
C17_NoOutputTypeGivesGenericOrWrapper ==
    (SchemaReturned /\ call.arg.output_type = NoType) =>
        IF YieldsSchema(call.arg.loaded_object)
        THEN /\ result[1].output.properties = call.arg.loaded_object.ret.props
             /\ result[1].output.required = call.arg.loaded_object.ret.required
             /\ ~IsGenericOutput(result[1].output)
        ELSE IsGenericOutput(result[1].output)

\* no output_type, a function without Pydantic annotations: generic output
C17_Witness ==
    /\ SchemaReturned
    /\ call.arg.output_type = NoType
    /\ call.arg.loaded_object = Loaded("callable", PlainType, PlainType)
    /\ IsGenericOutput(result[1].output)

\* the output section has the title, properties and required list of model t
FromModel(sect, t) ==
    /\ sect.title = t.name
    /\ sect.properties = t.props
    /\ sect.required = t.required

\* the input section is the default: one property 'message', required
IsDefaultInput(inp) ==
    /\ inp.type = "object"
    /\ inp.properties = {"message"}
    /\ inp.required = {"message"}

\* the output came from the return annotation of the wrapper
FromWrapperReturn(sect, obj) ==
    /\ obj.kind = "callable"
    /\ obj.ret.kind = "model"
    /\ FromModel(sect, obj.ret)

InputIsDefault == SchemaReturned => IsDefaultInput(result[1].input)

WrapperOnlyWithoutUsableType ==
    (SchemaReturned /\ FromWrapperReturn(result[1].output, call.arg.loaded_object))
        => call.arg.output_type.kind \in {"none", "plain", "broken"}

Tool(attr, value) == [attr |-> attr, value |-> value]
NamedTool(n) == Tool("name", n)

\* _get_tool_name
GetToolName(tool) ==
    IF tool.attr \in {"name", "__name__", "tool_name"} THEN tool.value
    ELSE IF tool.value = "SearchTool" THEN "search"
    ELSE IF tool.value = "Calculator" THEN "calculator"
    ELSE tool.value

\* an agent: name (None for an object without one), tools, handoffs
Agent(name, tools, handoffs) ==
    [name |-> name, tools |-> tools, handoffs |-> handoffs]

hr_agent ==
    Agent("hr_agent",
          << NamedTool("check_employee_benefits"), NamedTool("submit_leave_request"),
             NamedTool("get_salary_info") >>, << >>)
procurement_agent ==
    Agent("procurement_agent",
          << NamedTool("create_purchase_order"),
             NamedTool("check_budget_availability"),
             NamedTool("track_order_status") >>, << >>)
policy_agent ==
    Agent("policy_agent",
          << NamedTool("get_company_policy"), NamedTool("check_compliance_status") >>,
          << >>)
legal_agent == Agent("legal_agent", << >>, << >>)
escalation_agent ==
    Agent("escalation_agent", << Tool("class", "SearchTool") >>, << legal_agent >>)
\* a Handoff object: it has no attribute `name`
handoff_object == Agent(None, << >>, << >>)

SubAgents ==
    { hr_agent, procurement_agent, policy_agent, legal_agent, escalation_agent,
      handoff_object }

EntryAgents ==
    { Agent("orchestrator_agent", t, h) :
        t \in { << >>, << Tool("__name__", "route_request") >> },
        h \in SeqsUpTo(SubAgents, MaxHandoffs) }

\* the orchestrator of the multi-layer sample
orchestrator_agent ==
    Agent("orchestrator_agent", << >>,
          << hr_agent, procurement_agent, policy_agent >>)

Node(id, type) == [id |-> id, name |-> id, type |-> type]
Edge(source, target, label) ==
    [source |-> source, target |-> target, label |-> label]
Graph(nodes, edges) == [nodes |-> nodes, edges |-> edges]

RECURSIVE ToolNodes(_)
ToolNodes(tools) ==
    IF tools = << >> THEN << >>
    ELSE (IF GetToolName(Head(tools)) # ""
          THEN << Node(GetToolName(Head(tools)), "tool") >>
          ELSE << >>) \o ToolNodes(Tail(tools))

RECURSIVE ToolEdges(_, _)
ToolEdges(agent_name, tools) ==
    IF tools = << >> THEN << >>
    ELSE (IF GetToolName(Head(tools)) # ""
          THEN << Edge(agent_name, GetToolName(Head(tools)), "tool_call"),
                  Edge(GetToolName(Head(tools)), agent_name, "tool_result") >>
          ELSE << >>) \o ToolEdges(agent_name, Tail(tools))

RECURSIVE HandoffNodes(_)
HandoffNodes(handoffs) ==
    IF handoffs = << >> THEN << >>
    ELSE (IF Head(handoffs).name # None
          THEN << Node(Head(handoffs).name, "model") >>
          ELSE << >>) \o HandoffNodes(Tail(handoffs))

RECURSIVE HandoffEdges(_, _)
HandoffEdges(agent_name, handoffs) ==
    IF handoffs = << >> THEN << >>
    ELSE (IF Head(handoffs).name # None
          THEN << Edge(agent_name, Head(handoffs).name, "handoff"),
                  Edge(Head(handoffs).name, agent_name, "handoff_complete") >>
          ELSE << >>) \o HandoffEdges(agent_name, Tail(handoffs))

\* get_agent_schema: the entry agent, its own tools and its direct handoffs
GetAgentSchema(agent) ==
    Graph(<< Node("__start__", "__start__"), Node(agent.name, "model") >>
              \o ToolNodes(agent.tools)
              \o HandoffNodes(agent.handoffs)
              \o << Node("__end__", "__end__") >>,
          << Edge("__start__", agent.name, "input") >>
              \o ToolEdges(agent.name, agent.tools)
              \o HandoffEdges(agent.name, agent.handoffs)
              \o << Edge(agent.name, "__end__", "output") >>)

AgentSchema ==
    /\ Called("get_agent_schema")
    /\ result' = Some(GetAgentSchema(call.arg))
    /\ UNCHANGED call
    /\ UNCHANGED notFnVars

InitGraph ==
    /\ RuntimeInit("openai", TRUE)
    /\ FactoryInit(TRUE, FALSE, FALSE, FALSE)
    /\ StorageInit
    /\ SharedIdle
    /\ \E a \in EntryAgents : call = Call("get_agent_schema", a)
    /\ result = Pending

NextGraph == AgentSchema

SpecGraph == InitGraph /\ [][NextGraph]_vars

GraphReturned == call.fn = "get_agent_schema" /\ result # Pending

\* the agents reachable from an agent through handoffs, itself included
RECURSIVE Reachable(_)
Reachable(agent) ==
    {agent} \cup
    UNION { Reachable(agent.handoffs[i]) : i \in 1..Len(agent.handoffs) }

\* the id of the aggregated tools node of an agent
ToolsNodeId(name) ==
    IF name = "orchestrator_agent" THEN "orchestrator_agent_tools"
    ELSE IF name = "hr_agent" THEN "hr_agent_tools"
    ELSE IF name = "procurement_agent" THEN "procurement_agent_tools"
    ELSE IF name = "policy_agent" THEN "policy_agent_tools"
    ELSE IF name = "escalation_agent" THEN "escalation_agent_tools"
    ELSE "legal_agent_tools"

\* how many elements of a sequence satisfy a test on the id
CountNodes(nodes, id, type) ==
    Cardinality({ i \in 1..Len(nodes) : nodes[i].id = id /\ nodes[i].type = type })
HasEdge(edges, source, target, label) ==
    \E i \in 1..Len(edges) : edges[i] = Edge(source, target, label)

\* C19: every agent reachable through handoffs is exactly one node of type
\* 'model'; every agent with tools has exactly one node '<name>_tools' of type
\* 'tool' joined to it by unlabeled edges in both directions; handoff edges
\* are unlabeled in both directions; '__start__' and '__end__' connect only
\* to the entry agent; the orchestrator with three tool-bearing handoff
\* agents gives 9 nodes and 14 edges.
C19_FlatGraph ==
    GraphReturned =>
        LET g == result[1]
            named == { a \in Reachable(call.arg) : a.name # None }
        IN /\ \A a \in named : CountNodes(g.nodes, a.name, "model") = 1
           /\ \A a \in named :
                  a.tools # << >> =>
                      /\ CountNodes(g.nodes, ToolsNodeId(a.name), "tool") = 1
                      /\ HasEdge(g.edges, a.name, ToolsNodeId(a.name), None)
                      /\ HasEdge(g.edges, ToolsNodeId(a.name), a.name, None)
           /\ \A a \in named :
                  \A i \in 1..Len(a.handoffs) :
                      a.handoffs[i].name # None =>
                          /\ HasEdge(g.edges, a.name, a.handoffs[i].name, None)
                          /\ HasEdge(g.edges, a.handoffs[i].name, a.name, None)
           /\ \A i \in 1..Len(g.edges) :
                  /\ g.edges[i].source = "__start__" =>
                         g.edges[i].target = call.arg.name
                  /\ g.edges[i].target = "__end__" =>
                         g.edges[i].source = call.arg.name
                  /\ g.edges[i].target # "__start__"
                  /\ g.edges[i].source # "__end__"
           /\ call.arg = orchestrator_agent =>
                  (Len(g.nodes) = 9 /\ Len(g.edges) = 14)

(***************************************************************************)
(* Schema extraction: _resolve_refs                                        *)
(***************************************************************************)
\* a JSON value: a leaf with its text, or a dict or list with its entries in
\* order; an entry is a key (empty in a list) and a value
Json(kind, text, kids) == [kind |-> kind, text |-> text, kids |-> kids]
Pair(key, val) == [key |-> key, val |-> val]
Leaf(text) == Json("leaf", text, << >>)
Dict(kids) == Json("dict", "", kids)
List(kids) == Json("list", "", kids)
EmptyDict == Dict(<< >>)

\* names of definitions and the references to them
DefNames == {"A", "B"}
RefPath(name) == IF name = "A" THEN "#/$defs/A" ELSE "#/$defs/B"
RefPaths == { RefPath(n) : n \in DefNames }

\* ref_path.lstrip("#/").split("/")
RefParts(ref_path) ==
    IF ref_path = "#/$defs/A" THEN << "$defs", "A" >>
    ELSE IF ref_path = "#/$defs/B" THEN << "$defs", "B" >>
    ELSE << ref_path >>

\* f"Circular reference to {ref_path}"
CircularText(ref_path) ==
    IF ref_path = "#/$defs/A" THEN "Circular reference to #/$defs/A"
    ELSE IF ref_path = "#/$defs/B" THEN "Circular reference to #/$defs/B"
    ELSE "Circular reference to"

\* values of a property: a plain type, a reference, an array of a reference,
\* an optional reference
Ref(name) == Dict(<< Pair("$ref", Leaf(RefPath(name))) >>)
PlainProp == Dict(<< Pair("type", Leaf("string")) >>)
ArrayOf(v) == Dict(<< Pair("type", Leaf("array")), Pair("items", v) >>)
AnyOfNull(v) ==
    Dict(<< Pair("anyOf", List(<< Pair("", v),
                                  Pair("", Dict(<< Pair("type", Leaf("null")) >>)) >>)) >>)
PropValues ==
    { PlainProp } \cup
    UNION { { Ref(n), ArrayOf(Ref(n)), AnyOfNull(Ref(n)) } : n \in DefNames }

\* a model with one property
ObjectSchema(title, prop, v) ==
    << Pair("title", Leaf(title)), Pair("type", Leaf("object")),
       Pair("properties", Dict(<< Pair(prop, v) >>)) >>

\* documents as TypeAdapter(...).json_schema() produces them: '$defs' with the
\* models referred to, and either the properties of the root model or, for a
\* recursive root model, a reference to its definition
DefsOf(a, b) ==
    Pair("$defs", Dict(<< Pair("A", Dict(ObjectSchema("A", "next", a))),
                          Pair("B", Dict(ObjectSchema("B", "next", b))) >>))
Documents ==
    { Dict(<< DefsOf(a, b) >> \o ObjectSchema("Root", "item", v)) :
        a \in PropValues, b \in PropValues, v \in PropValues } \cup
    { Dict(<< DefsOf(a, b), Pair("$ref", Leaf(RefPath("A"))) >>) :
        a \in PropValues, b \in PropValues }

\* `key in d` and d.get(key, {}) on a dict
HasKey(d, key) == \E i \in 1..Len(d.kids) : d.kids[i].key = key
Get(d, key) ==
    IF d.kind = "dict" /\ HasKey(d, key)
    THEN d.kids[CHOOSE i \in 1..Len(d.kids) : d.kids[i].key = key].val
    ELSE EmptyDict

\* the walk from the root along the parts of a reference
RECURSIVE Lookup(_, _)
Lookup(ref_schema, parts) ==
    IF parts = << >> THEN ref_schema
    ELSE Lookup(Get(ref_schema, Head(parts)), Tail(parts))

\* the placeholder returned for a reference that is being resolved already
Circular(ref_path) ==
    Dict(<< Pair("type", Leaf("object")),
            Pair("description", Leaf(CircularText(ref_path))) >>)

\* the call nesting exceeded what the interpreter allows
RecursionError == Json("raise", "RecursionError", << >>)
Raises(v) ==
    \/ v.kind = "raise"
    \/ \E i \in 1..Len(v.kids) : v.kids[i].val.kind = "raise"

\* mutant: no reference counts as visited
InVisited_Never(ref_path, visited) == FALSE

\* `ref_path in visited`
InVisited(ref_path, visited) == ref_path \in visited

\* _resolve_refs(schema, root, visited); visited is extended for the nested
\* call only, as add() before it and discard() after it do. An exception of
\* a nested call leaves the call.
RECURSIVE ResolveRefs(_, _, _, _)
ResolveRefs(schema, root, visited, depth) ==
    IF depth > MaxDepth THEN RecursionError
    ELSE IF schema.kind = "dict" /\ HasKey(schema, "$ref")
    THEN LET ref_path == Get(schema, "$ref").text
         IN IF InVisited(ref_path, visited)
            THEN Circular(ref_path)
            ELSE ResolveRefs(Lookup(root, RefParts(ref_path)), root,
                             visited \cup {ref_path}, depth + 1)
    ELSE IF schema.kind \in {"dict", "list"}
    THEN LET kids == [ i \in 1..Len(schema.kids) |->
                         Pair(schema.kids[i].key,
                              ResolveRefs(schema.kids[i].val, root, visited,
                                          depth + 1)) ]
         IN IF \E i \in 1..Len(kids) : kids[i].val.kind = "raise"
            THEN RecursionError
            ELSE Json(schema.kind, "", kids)
    ELSE schema

ResolveRefsCall ==
    /\ Called("_resolve_refs")
    /\ result' = Some(ResolveRefs(call.arg, call.arg, {}, 1))
    /\ UNCHANGED call
    /\ UNCHANGED notFnVars

InitRefs ==
    /\ RuntimeInit("openai", TRUE)
    /\ FactoryInit(TRUE, FALSE, FALSE, FALSE)
    /\ StorageInit
    /\ SharedIdle
    /\ \E d \in Documents : call = Call("_resolve_refs", d)
    /\ result = Pending

NextRefs == ResolveRefsCall

SpecRefs == InitRefs /\ [][NextRefs]_vars

RefsResolved == call.fn = "_resolve_refs" /\ result # Pending

\* some dict of the value has the key '$ref'
RECURSIVE HasRefKey(_)
HasRefKey(v) ==
    \/ (v.kind = "dict" /\ HasKey(v, "$ref"))
    \/ \E i \in 1..Len(v.kids) : HasRefKey(v.kids[i].val)

\* some dict of the value is the placeholder of a circular reference
RECURSIVE HasPlaceholder(_)
HasPlaceholder(v) ==
    \/ \E r \in RefPaths : v = Circular(r)
    \/ \E i \in 1..Len(v.kids) : HasPlaceholder(v.kids[i].val)

\* the definitions a value refers to
RECURSIVE RefsIn(_)
RefsIn(v) ==
    (IF v.kind = "dict" /\ HasKey(v, "$ref")
     THEN { n \in DefNames : RefPath(n) = Get(v, "$ref").text }
     ELSE {}) \cup
    UNION { RefsIn(v.kids[i].val) : i \in 1..Len(v.kids) }

\* the definition n of document d refers to itself, directly or through
\* other definitions
Body(d, n) == Lookup(d, RefParts(RefPath(n)))
RECURSIVE ReachedFrom(_, _, _)
ReachedFrom(d, names, steps) ==
    IF steps = 0 THEN names
    ELSE ReachedFrom(d, names \cup UNION { RefsIn(Body(d, n)) : n \in names },
                     steps - 1)
OnCycle(d, n) ==
    n \in ReachedFrom(d, RefsIn(Body(d, n)), Cardinality(DefNames))

\* the definitions the resolution of document d enters: all of them under
\* '$defs', or those reached from the reference the root consists of
Entered(d) ==
    IF HasKey(d, "$ref")
    THEN ReachedFrom(d, RefsIn(Dict(<< Pair("$ref", Get(d, "$ref")) >>)),
                     Cardinality(DefNames))
    ELSE DefNames

\* C20: _resolve_refs returns for every document, also when definitions refer
\* to themselves or to each other in a cycle; the result has no '$ref' key;
\* a 'Circular reference' placeholder stands exactly where a definition that
\* is being resolved is referred to again, all other references being
\* replaced by the resolved definition.
C20_ResolvesCyclicRefs ==
    RefsResolved =>
        /\ ~Raises(result[1])
        /\ ~HasRefKey(result[1])
        /\ HasPlaceholder(result[1]) <=>
               (\E n \in Entered(call.arg) : OnCycle(call.arg, n))
        /\ (HasKey(call.arg, "$ref") /\ RefsIn(Body(call.arg, "A")) = {}) =>
               result[1] = Body(call.arg, "A")

\* A and B refer to each other; the result has a placeholder and no '$ref'
C20_Witness ==
    /\ RefsResolved
    /\ RefsIn(Body(call.arg, "A")) = {"B"}
    /\ RefsIn(Body(call.arg, "B")) = {"A"}
    /\ HasPlaceholder(result[1])
    /\ ~HasRefKey(result[1])
    /\ ~Raises(result[1])

(***************************************************************************)
(* get_entrypoints_schema called twice on the same objects                 *)
(***************************************************************************)
\* the second call: it sees the agent as the first call left it, and its
\* schema is built from new dictionaries
EntrypointsSchemaAgain ==
    /\ call.fn = "get_entrypoints_schema"
    /\ Len(result) = 1
    /\ result' = Append(result, GetEntrypointsSchema(call.arg.output_type,
                                                     call.arg.loaded_object))
    /\ call' = Call(call.fn, AgentAfterGetEntrypointsSchema(call.arg))
    /\ UNCHANGED notFnVars

NextSchemaTwice == EntrypointsSchema \/ EntrypointsSchemaAgain

SpecSchemaTwice == InitSchema /\ [][NextSchemaTwice]_vars

InputRequiredAt == { i \in 1..Len(seen) : seen[i] = "InputRequiredEvent" }

\* the loop was left for the suspension path
Suspending == pc \in {"suspend", "cancel", "yield"}
SuspendedYielded == \E j \in 1..Len(out) : out[j] = Item("result", 0, "SUSPENDED")

\* the event consumed last has been through the isinstance test
LastChecked == pc \notin {"ev", "check"}

\* C22: a resuming run is not suspended by the first InputRequiredEvent of
\* its stream and goes on consuming events; the second one suspends it. A
\* non-resuming run is suspended by the first one.
C22_FirstInputRequiredSkippedOnResume ==
    adapter = "llamaindex" =>
        /\ (~isResuming /\ InputRequiredAt # {}) =>
               /\ InputRequiredAt = {Len(seen)}
               /\ (LastChecked /\ escaped = NoExc) =>
                      (Suspending \/ SuspendedYielded)
        /\ (isResuming /\ Cardinality(InputRequiredAt) = 1) =>
               /\ ~Suspending
               /\ ~SuspendedYielded
               /\ (LastChecked \/ Len(seen) \notin InputRequiredAt) => isResumed
        /\ (isResuming /\ Cardinality(InputRequiredAt) > 1) =>
               /\ Cardinality(InputRequiredAt) = 2
               /\ Len(seen) \in InputRequiredAt
               /\ (LastChecked /\ escaped = NoExc) =>
                      (Suspending \/ SuspendedYielded)

\* a resuming run consumed two InputRequiredEvents and ended suspended
C22_Witness ==
    /\ adapter = "llamaindex"
    /\ isResuming
    /\ seen = << "InputRequiredEvent", "InputRequiredEvent" >>
    /\ pc = "done"
    /\ Last = Item("result", 0, "SUSPENDED")

(***************************************************************************)
(* LlamaIndex: the context of a non-resuming run                           *)
(***************************************************************************)
\* a non-resuming run starts on the runtime instance
FreshStarts ==
    /\ adapter = "llamaindex"
    /\ pc \in Between
    /\ pc' = "loop"
    /\ ~isResuming'

\* C23: every non-resuming run is given a new workflow context, one that no
\* earlier run on the instance has worked on, whether that run completed or
\* was suspended.
C23_FreshContextPerRun ==
    [][FreshStarts =>
          /\ runArgs'.ctx.origin = "new"
          /\ runArgs'.ctx.progress = 0
          /\ runArgs'.ctx # ctx]_vars

(***************************************************************************)
(* OpenAI runtimes of one factory on the shared storage file               *)
(***************************************************************************)
notShVars == << rtVars, facVars, fnVars >>

\* the run of runtime `id` completes: its SQLiteSession, opened on the shared
\* storage_path under its runtime id, has stored the items of the run
Sh_RunSucceeds ==
    /\ \E id \in RuntimeIds :
         /\ sessionRows[id] < MaxItems
         /\ sessionRows' = [sessionRows EXCEPT ![id] = @ + 1]
    /\ UNCHANGED << failedRun, stVars >>
    /\ UNCHANGED notShVars

\* what a table of the file holds after the `except Exception:` block:
\* os.remove(self.storage_path) removes the file with every row in it
RowsAfterCleanup(attempt, rows, empty) ==
    IF attempt = "removed" THEN [r \in DOMAIN rows |-> empty] ELSE rows

\* the run of runtime `id` fails with an exception of class c
Sh_RunFails ==
    /\ failedRun.n < MaxFailures
    /\ \E id \in RuntimeIds, c \in OARaisable, resuming \in BOOLEAN,
          rmFails \in BOOLEAN :
         LET attempt == OA_CleanupAttempt(Raised(c, RaisedId), TRUE, TRUE,
                                          resuming, rmFails)
         IN /\ sessionRows' = RowsAfterCleanup(attempt, sessionRows, 0)
            /\ triggerRows' = RowsAfterCleanup(attempt, triggerRows, << >>)
            /\ stateRows' = RowsAfterCleanup(attempt, stateRows, Nothing)
            /\ failedRun' = FailedRun(id, resuming, attempt, failedRun.n + 1)
    /\ UNCHANGED << pickleFile, stLog, stGot >>
    /\ UNCHANGED notShVars

\* the shared file as earlier runs left it
InitShared ==
    /\ RuntimeInit("openai", TRUE)
    /\ FactoryInit(TRUE, FALSE, FALSE, FALSE)
    /\ FnIdle
    /\ pickleFile = NoFile
    /\ triggerRows \in [RuntimeIds -> {<< >>, << TriggerFirst >>}]
    /\ stateRows = [r \in RuntimeIds |-> Nothing]
    /\ stLog = << >>
    /\ stGot = NoGot
    /\ sessionRows \in [RuntimeIds -> 0..1]
    /\ failedRun = NoFailedRun

NextShared == Sh_RunSucceeds \/ Sh_RunFails

SpecShared == InitShared /\ [][NextShared]_vars

\* C24: a failed non-resuming run of one runtime leaves the session items
\* and the triggers of every other runtime id in the shared file unchanged.
C24_FailedRunKeepsOtherIds ==
    [][(failedRun'.n = failedRun.n + 1 /\ ~failedRun'.resuming) =>
          \A r \in RuntimeIds \ {failedRun'.id} :
              /\ sessionRows'[r] = sessionRows[r]
              /\ triggerRows'[r] = triggerRows[r]]_vars

(***************************************************************************)
(* OpenAI: breakpoints "*"                                                 *)
(***************************************************************************)
\* a run-item event named tool_called, handoff_requested or
\* mcp_approval_requested
SignificantEvent(event) ==
    /\ event.type = RunItem
    /\ event.name \in {"tool_called", "handoff_requested", "mcp_approval_requested"}

\* C25: with breakpoints "*", an event of the agent stream gets exactly one
\* breakpoint result if it is a run-item event named tool_called,
\* handoff_requested or mcp_approval_requested, and none if it is a raw
\* response event, an agent-updated event or another run-item event.
C25_StarPausesOnSignificant ==
    (adapter = "openai" /\ breakpoints = AllBreakpoints) =>
        \A i \in 1..Len(seen) :
            BreakpointCount(i) =
                IF Checked(i) /\ SignificantEvent(seen[i]) THEN 1 ELSE 0

\* an approval request paused the run, a message item before it did not
C25_Witness ==
    /\ adapter = "openai"
    /\ breakpoints = AllBreakpoints
    /\ pc = "done"
    /\ seen = << Ev(RunItem, "message_output_created", None, None),
                 Ev(RunItem, "mcp_approval_requested", None, None) >>
    /\ BreakpointCount(1) = 0
    /\ BreakpointCount(2) = 1

(***************************************************************************)
(* OpenAI: execute() with breakpoints and without a resume event           *)
(***************************************************************************)
\* execute() has returned to its caller
ExecuteReturned ==
    /\ adapter = "openai"
    /\ op = "execute"
    /\ pc = "done"
    /\ consumer = "finished"
    /\ escaped = NoExc

BreakpointsHit ==
    Cardinality({ j \in 1..Len(out) : out[j].kind = "breakpoint" })

\* C26: execute() with breakpoints and without a resume event returns the
\* SUCCESSFUL result the run yields last, after the whole stream has been
\* consumed, and never a breakpoint result, whatever the number of
\* breakpoints hit; the run does not wait at a breakpoint.
C26_ExecuteReturnsFinalResult ==
    (adapter = "openai" /\ op = "execute" /\ HasBreakpoints(breakpoints)
        /\ ~hasResume) =>
        /\ pc # "wait"
        /\ ExecuteReturned =>
               /\ returned = OA_CreateSuccessResult
               /\ returned = Last
               /\ returned.kind # "breakpoint"
               /\ BreakpointsHit =
                      Cardinality({ i \in 1..Len(seen) :
                                      ShouldPauseAtEvent(seen[i], breakpoints) })

\* two breakpoints were hit and execute() returned the final result
C26_Witness ==
    /\ ExecuteReturned
    /\ breakpoints = AllBreakpoints
    /\ ~hasResume
    /\ BreakpointsHit = 2
    /\ returned = OA_CreateSuccessResult

\* a task has called dispose() on the factory: it is in dispose(), or it has
\* returned without a runtime although the configuration exists
DisposeCalled ==
    \E p \in Tasks :
        \/ fpc[p] \in {"cleanup", "sdispose"}
        \/ fpc[p] = "done" /\ made[p] = NoRuntime /\ cfgExists

\* a call has just been given its runtime
RuntimeCreated(p) == made'[p] # made[p]

\* C27: as long as dispose() has not been called, the concurrent creations
\* of one factory share a single storage: every runtime made holds the
\* factory's storage instance and its path, a storage is created only when no
\* runtime has been made yet, and no runtime is made while the setup() of the
\* storage is still awaited.
C27_OneSharedStorage ==
    /\ [](~DisposeCalled =>
            \A p \in Tasks :
                made[p] # NoRuntime =>
                    /\ made[p].storage # 0
                    /\ made[p].storage = sharedStorage
                    /\ StoragePath(made[p].storage) = StoragePath(sharedStorage)
                    /\ StoragePath(made[p].storage) # Nothing)
    /\ [][(StorageCreated /\ ~DisposeCalled)
             => \A p \in Tasks : made[p] = NoRuntime]_vars
    /\ [][(~DisposeCalled' /\ \E p \in Tasks : RuntimeCreated(p))
             => \A q \in Tasks : fpc'[q] # "setup"]_vars

C27_Witness ==
    /\ ~DisposeCalled
    /\ \A p \in Tasks : fpc[p] = "done" /\ made[p] # NoRuntime
    /\ \A p \in Tasks : made[p].storage = sharedStorage
    /\ sharedStorage # 0
    /\ made[1].agent # made[2].agent

(***************************************************************************)
(* The deep-research sample: research_step                                 *)
(***************************************************************************)
MaxQuestions == 2     \* most research questions of a plan
MaxPriorities == 2    \* longest priority_order of a plan

\* the questions of a plan are the first n of these
QuestionNames == << "Q1", "Q2", "Q3", "Q4" >>

\* ResearchPlan: research_questions and priority_order, a list of any
\* integers (the planner parses it with int() from the reply of the LLM)
ResearchPlan(qs, order) == [research_questions |-> qs, priority_order |-> order]
PriorityValues == (0 - MaxQuestions - 1)..(MaxQuestions + 1)
PriorityOrders ==
    UNION { [1..n -> PriorityValues] : n \in 0..MaxPriorities }
ResearchPlans ==
    { ResearchPlan(SubSeq(QuestionNames, 1, n), order) :
        n \in 0..MaxQuestions, order \in PriorityOrders }

\* what research_step does: execute_research is called with the questions,
\* or the IndexError of the list leaves the step
Executed(qs) == [kind |-> "executed", questions |-> qs]
IndexError == [kind |-> "raise", questions |-> << >>]

\* list[k]: a negative k counts from the end of the list
PyIndex(list, k) ==
    IF 0 <= k /\ k < Len(list) THEN Some(list[k + 1])
    ELSE IF k < 0 /\ 0 <= k + Len(list) THEN Some(list[k + Len(list) + 1])
    ELSE Nothing

\* `if i <= len(plan.research_questions)`
Selected(i, n) == i <= n

\* [plan.research_questions[i - 1] for i in plan.priority_order if ...]
\* and the call of the executor with that list
RECURSIVE OrderedQuestions(_, _)
OrderedQuestions(questions, order) ==
    IF order = << >> THEN Executed(<< >>)
    ELSE LET i == Head(order)
             rest == OrderedQuestions(questions, Tail(order))
         IN IF ~Selected(i, Len(questions)) THEN rest
            ELSE LET q == PyIndex(questions, i - 1)
                 IN IF q = Nothing \/ rest.kind = "raise" THEN IndexError
                    ELSE Executed(<< q[1] >> \o rest.questions)

ResearchStep ==
    /\ Called("research_step")
    /\ result' = Some(OrderedQuestions(call.arg.research_questions,
                                       call.arg.priority_order))
    /\ UNCHANGED call
    /\ UNCHANGED notFnVars

InitResearch ==
    /\ RuntimeInit("llamaindex", FALSE)
    /\ FactoryInit(TRUE, FALSE, FALSE, FALSE)
    /\ StorageInit
    /\ SharedIdle
    /\ \E plan \in ResearchPlans : call = Call("research_step", plan)
    /\ result = Pending

NextResearch == ResearchStep

SpecResearch == InitResearch /\ [][NextResearch]_vars

\* the priority indices that refer to an existing question, in their order
ExistingPriorities(plan) ==
    SelectSeq(plan.priority_order,
              LAMBDA i : i \in 1..Len(plan.research_questions))

\* C28: research_step passes to the executor exactly the questions the
\* priority indices within 1..len(questions) refer to, in the order of
\* priority_order; every other index is skipped.
C28_OnlyExistingQuestionsInPriorityOrder ==
    (call.fn = "research_step" /\ result # Pending) =>
        LET plan == call.arg
            valid == ExistingPriorities(plan)
        IN /\ result[1].kind = "executed"
           /\ result[1].questions =
                  [ j \in 1..Len(valid) |-> plan.research_questions[valid[j]] ]

====
